---- MODULE Spec2Model ----
(***************************************************************************)
(* videodlbot: one run of process_url (bot/download.py) together with the  *)
(* worker thread it starts (download_thread, running download_video of     *)
(* download/downloader.py).  The event loop thread (orchestrator and       *)
(* poller) and the worker thread interleave at every access to the shared  *)
(* DownloadContext.  Time is counted in units of 0.5 s.                     *)
(***************************************************************************)
EXTENDS Integers, Sequences, FiniteSets, TLC

\* ---------------------------------------------------------------- bounds
MaxTime == 10          \* the clock stops advancing here
MaxProgress == 2       \* progress / postprocess hook calls per download
MaxEditDelay == 1      \* longest time an awaited message edit takes
MaxUploads == 4        \* files ever uploaded to storage

\* ------------------------------------------------------ program constants
MinInterval == 3       \* 1.5 s between reads of the progress holder
PollTick == 1          \* asyncio.sleep(0.5)
JoinTimeout == 10      \* thread.join(timeout=5) in process_url
CleanupJoinTimeout == 4 \* thread.join(timeout=2) in cleanup
StartTime == 4         \* time.time() at the first iteration (any value >= 1.5 s)
BYTES_MB == 1048576
MAX_TELEGRAM_FILE_SIZE == 50 * BYTES_MB
MAX_FILE_SIZE == 500 * BYTES_MB

VARIABLES
    update,           \* the incoming message, as process_url's tests see it
    info,             \* what extract_video_info returned
    upload_result,    \* how upload_to_firebase ended
    pc,               \* position of process_url
    wpc,              \* position of download_thread
    now,              \* time.time()
    status_created,   \* the status message exists
    temp_dir,         \* tempfile.mkdtemp() was called
    dirExists,        \* the working directory is on disk
    fileExists,       \* temp_path is on disk
    fileSize,         \* its size in bytes
    download_complete,
    download_result,  \* ctx.download_result[0]: "None" or "path"
    download_error,   \* ctx.download_error[0]: "None" or "error"
    progress_data,    \* ctx.progress_data, a dict of at most one key
    hook,             \* the snapshot an executing hook is about to store
    nProgress,        \* hook calls made so far
    dvOutcome,        \* how download_video ended: "none", "path", "None", "raise"
    prev_message,     \* locals of _monitor_download_progress
    last_update_time,
    message,
    monitorRaised,    \* _monitor_download_progress ended with an exception
    exc,              \* the exception process_url's handler caught
    cret,             \* where process_url continues after cleanup
    edits,            \* the edits process_url itself issued on the status message
    shown,            \* the text the status message shows
    pollerEdit,       \* the last edit the poller issued, and the time of the one before
    replies,          \* every other message sent to the user
    outcome,          \* how process_url ended
    \* ---- history variables
    nWrites,          \* writes to download_result[0] / download_error[0]
    lastSnap,         \* the holder after the last completed hook
    reads,            \* what the poller's reads of the holder observed in the current build
    finishedWritten,  \* a 'finished' snapshot was stored
    finishedRead,     \* the poller read a 'finished' snapshot
    cleanups,         \* calls of DownloadContext.cleanup
    removals,         \* times the working directory was actually removed
    cleanupFailed,    \* a call inside cleanup raised (and was logged)
    \* ---- download_video's preparation of the yt-dlp options, on its own
    dv,               \* the frame of download_video: position, info, locals, options
    call,             \* a call of one of the two codec rules: function, argument, result
    \* ---- two invocations of process_url side by side
    ctxs,             \* per invocation: position, worker position, the DownloadContext
    world,            \* directories and files on disk, and the objects allocated so far
    last,             \* what the last step touched: whose step, which objects, which paths
    \* ---- the progress formatter on its own
    fmt,              \* a call of build_download_progress_message
    \* ---- the stored files and their listing
    store,            \* the files in storage, each named by its upload number
    uploaded,         \* how many files have been uploaded so far
    listing,          \* the files of the message with the delete buttons, as displayed
    click,            \* the last run of delete_file_callback
    \* ---- the authorization wrapper around a handler
    auth              \* the update's user, ALLOWED_USERS, the handler, the wrapper's position

contextVars == <<ctxs, world, last>>

codecVars == <<dv, call>>

formatVars == <<fmt>>

filesVars == <<store, uploaded, listing, click>>

authVars == <<auth>>

auxVars == <<codecVars, contextVars, formatVars, filesVars, authVars>>

vars == <<auxVars, update, info, upload_result, pc, wpc, now, status_created, temp_dir, dirExists, fileExists, fileSize,
          download_complete, download_result, download_error, progress_data, hook,
          nProgress, dvOutcome, prev_message, last_update_time, message,
          monitorRaised, exc, cret, edits, shown, pollerEdit, replies, outcome,
          nWrites, lastSnap, reads, finishedWritten, finishedRead, cleanups, removals, cleanupFailed>>

orchVars == <<update, info, upload_result, removals, cleanupFailed, pc, now, status_created, temp_dir, prev_message, last_update_time,
              message, monitorRaised, exc, cret, edits, shown, pollerEdit, replies,
              outcome, reads, finishedRead, cleanups>>
workerVars == <<wpc, download_complete, download_result, download_error, hook,
                nProgress, dvOutcome, nWrites, lastSnap, finishedWritten>>

\* ------------------------------------------------------------ data values
\* A numeric field of a progress dict: a number, None, or no such key.
IntV(n) == [t |-> "int", v |-> n]
NoneV == [t |-> "None", v |-> 0]
AbsentV == [t |-> "absent", v |-> 0]

\* The dict yt-dlp passes to a hook (d.copy()); EmptyD is {}.
EmptyD == [empty |-> TRUE, status |-> "", downloaded_bytes |-> 0,
           total_bytes |-> AbsentV, eta |-> AbsentV, postprocessor |-> ""]
DlDict(status, downloaded, total, eta) ==
    [empty |-> FALSE, status |-> status, downloaded_bytes |-> downloaded,
     total_bytes |-> total, eta |-> eta, postprocessor |-> ""]
DlD(status, downloaded, total) == DlDict(status, downloaded, total, AbsentV)
PpD(status, postprocessor) ==
    [empty |-> FALSE, status |-> status, downloaded_bytes |-> 0,
     total_bytes |-> AbsentV, eta |-> AbsentV, postprocessor |-> postprocessor]

\* ctx.progress_data: {} or {key: d}.
EmptyHolder == [key |-> "", d |-> EmptyD]
Holder(key, d) == [key |-> key, d |-> d]

\* The dicts the download reports to on_progress and to on_postprocess.
ProgressInputs ==
    { DlD("downloading", 1, IntV(2)), DlD("downloading", 1, NoneV),
      DlD("finished", 2, IntV(2)) }
PostprocessInputs == { PpD("started", "Merger") }

\* A text shown to the user: its template and the numbers formatted into it.
Msg(text, a, b, c) == [text |-> text, a |-> a, b |-> b, c |-> c]
EmptyMsg == Msg("", 0, 0, 0)
InitialStatus == Msg("Downloading video, please wait...", 0, 0, 0)
SorryMsg == Msg("Sorry, there was an error downloading the video.", 0, 0, 0)
TooLargeMsg == Msg("Sorry, the video is too large", 0, 0, 0)
FileTooLargeMsg == Msg("File too large for Telegram. Uploading to cloud storage...", 0, 0, 0)
UploadInProgressMsg == Msg("Upload in progress...", 0, 0, 0)
ErrorMsg(e) == Msg("An error occurred: " \o e, 0, 0, 0)

\* No edit issued by the poller yet.
NoPollerEdit == [n |-> 0, text |-> EmptyMsg, at |-> 0, prevAt |-> 0, shownBefore |-> EmptyMsg]

\* The incoming message: whether it has text, and what is_valid_url and
\* is_supported_platform answer for the text.
Updates ==
    {[hasText |-> FALSE, valid |-> FALSE, supported |-> FALSE]} \cup
    {[hasText |-> TRUE, valid |-> v, supported |-> p] :
        v \in BOOLEAN, p \in BOOLEAN}

\* The metadata extract_video_info returns: {} when yt-dlp gave nothing, a
\* playlist (entries, no 'filesize'), or one video with or without 'filesize'.
Info(kind, filesize) == [kind |-> kind, filesize |-> filesize]
NoInfo == Info("unset", AbsentV)
Infos ==
    {Info("empty", AbsentV), Info("playlist", AbsentV)} \cup
    {Info("video", f) :
        f \in {AbsentV, IntV(0), IntV(MAX_FILE_SIZE), IntV(MAX_FILE_SIZE + 1)}}

\* Sizes the artifact can have.
FileSizes == {0, MAX_TELEGRAM_FILE_SIZE, MAX_TELEGRAM_FILE_SIZE + 1}

\* --------------------------------------------------------------- formatter
\* n / m in hundredths, rounded to the nearest (ties to even) as '.2f' does.
Hundredths(n, m) ==
    LET q == (n * 100) \div m
        r == (n * 100) % m
    IN  IF 2 * r > m \/ (2 * r = m /\ q % 2 = 1) THEN q + 1 ELSE q

\* The text '.2f' gives for a value kept in hundredths.
Fixed2(h) ==
    ToString(h \div 100) \o "." \o ToString((h % 100) \div 10) \o ToString(h % 10)

\* build_download_progress_message: `total_bytes > 0` on None (line 19) and
\* the format ':.0f' of a None eta (line 23) raise TypeError; a missing key
\* takes the default 0. The percentage is kept in hundredths.
DownloadMessageRaises(d) == d.total_bytes.t = "None" \/ d.eta.t = "None"
build_download_progress_message(d) ==
    LET total == IF d.total_bytes.t = "int" THEN d.total_bytes.v ELSE 0
        percent == IF total > 0 THEN Hundredths(d.downloaded_bytes * 100, total) ELSE 0
    IN  Msg("Downloading", percent, d.downloaded_bytes, total)

\* The dicts build_download_progress_message is tried with.
FormatInputs ==
    {DlDict(status, downloaded, total, eta) :
        status \in {"downloading", "finished"},
        downloaded \in {0, 1, 2, 3, 7},
        total \in {AbsentV, NoneV, IntV(0), IntV(2), IntV(3)},
        eta \in {AbsentV, NoneV, IntV(0), IntV(60)}}

\* A call of build_download_progress_message: argument, and how it ended.
FormatCall(d, ended, text) == [d |-> d, ended |-> ended, text |-> text]
NoFormatCall == FormatCall(EmptyD, "none", EmptyMsg)

build_pp_progress_message(d) ==
    IF d.empty
    THEN Msg("Postprocessing with unknown postprocessor: unknown status", 0, 0, 0)
    ELSE Msg("Postprocessing with " \o d.postprocessor \o ": " \o d.status, 0, 0, 0)

\* ------------------------------------------- codecs and yt-dlp options
\* A value of the metadata dict: a string, None, or no such key.
Str(x) == [t |-> "str", s |-> x]
NoneS == [t |-> "None", s |-> ""]
AbsentS == [t |-> "absent", s |-> ""]

\* str.startswith
StartsWith(x, prefix) ==
    Len(x) >= Len(prefix) /\ SubSeq(x, 1, Len(prefix)) = prefix

\* Mutant of need_convert_vcodec: the identifiers are compared as they are,
\* without the prefix rules.
need_convert_vcodec_literal(vcodec) ==
    IF vcodec.t = "None" \/ vcodec.s = ""
    THEN TRUE
    ELSE vcodec.s \notin {"h264", "h265", "avc1", "av01"}

\* need_convert_vcodec, downloader.py lines 34-49.
need_convert_vcodec(vcodec) ==
    IF vcodec.t = "None" \/ vcodec.s = ""
    THEN TRUE
    ELSE LET v == IF StartsWith(vcodec.s, "avc1") THEN "h264"
                  ELSE IF StartsWith(vcodec.s, "av01") THEN "av01"
                  ELSE IF StartsWith(vcodec.s, "hvc1") THEN "h265"
                  ELSE IF StartsWith(vcodec.s, "hevc") THEN "h265"
                  ELSE IF StartsWith(vcodec.s, "h264") THEN "h264"
                  ELSE IF StartsWith(vcodec.s, "h265") THEN "h265"
                  ELSE vcodec.s
         IN  v \notin {"h264", "h265", "avc1", "av01"}

CompatibleAudio == {"aac", "mp4a.40.2", "mp4a.40.5", "mp4a.40.29"}

\* Mutant of need_convert_acodec: the identifiers are matched as prefixes.
need_convert_acodec_prefix(acodec) ==
    ~(acodec.t = "str" /\ \E c \in CompatibleAudio : StartsWith(acodec.s, c))

\* need_convert_acodec, downloader.py lines 52-53.
need_convert_acodec(acodec) ==
    ~(acodec.t = "str" /\ acodec.s \in CompatibleAudio)

\* dict.get(key, ''): the default only stands in for a missing key.
Get(value) == IF value.t = "absent" THEN Str("") ELSE value

\* Mutant of NeedConvert: the extractor is not looked at.
NeedConvertAnyExtractor(extractor, vcodec, acodec) ==
    need_convert_vcodec(vcodec) \/ need_convert_acodec(acodec)

\* download_video lines 69-71.
NeedConvert(extractor, vcodec, acodec) ==
    extractor = Str("youtube")
        /\ (need_convert_vcodec(vcodec) \/ need_convert_acodec(acodec))

\* Mutant of CopystreamArgs: both targets follow the video codec.
CopystreamArgsByVideo(vcodec, acodec) ==
    <<"-c:v", IF need_convert_vcodec(vcodec) THEN "libx264" ELSE "copy",
      "-c:a", IF need_convert_vcodec(vcodec) THEN "aac" ELSE "copy">>

\* download_video lines 102-109: postprocessor_args['copystream'].
CopystreamArgs(vcodec, acodec) ==
    <<"-c:v", IF need_convert_vcodec(vcodec) THEN "libx264" ELSE "copy",
      "-c:a", IF need_convert_acodec(acodec) THEN "aac" ELSE "copy">>

\* The codec and extractor values download_video is tried with.
VideoCodecs ==
    {AbsentS, NoneS} \cup
    {Str(x) : x \in {"", "avc1.64001F", "avc1", "h264", "hvc1.1.6.L93.B0", "hevc",
                     "h265", "av01.0.08M.08", "hev1.1.6.L93.B0", "vp9",
                     "vp09.00.40.08", "none", "H264", "avc", "av1"}}
AudioCodecs ==
    {AbsentS, NoneS} \cup
    {Str(x) : x \in {"", "aac", "mp4a.40.2", "mp4a.40.5", "mp4a.40.29", "mp4a.40.20",
                     "mp4a", "opus", "AAC", "none"}}
Extractors ==
    {AbsentS} \cup {Str(x) : x \in {"youtube", "Youtube", "youtube:tab", "instagram"}}
CodecInfos ==
    {[vcodec |-> v, acodec |-> a, extractor |-> e] :
        v \in VideoCodecs, a \in AudioCodecs, e \in Extractors}

\* The frame of download_video while it prepares ydl_opts.
Frame(at, i, v, a, e, nc, pps, args) ==
    [at |-> at, info |-> i, vcodec |-> v, acodec |-> a, extractor |-> e,
     need_convert |-> nc, postprocessors |-> pps, postprocessor_args |-> args]
NoInfoCodecs == [vcodec |-> AbsentS, acodec |-> AbsentS, extractor |-> AbsentS]
NoFrame == Frame("none", NoInfoCodecs, AbsentS, AbsentS, AbsentS, FALSE, <<>>, <<>>)
Entered(i) == Frame("entry", i, AbsentS, AbsentS, AbsentS, FALSE, <<>>, <<>>)

\* A call of need_convert_vcodec or need_convert_acodec with one argument.
Call(fn, arg, done, ret) == [fn |-> fn, arg |-> arg, done |-> done, ret |-> ret]
NoCall == Call("none", AbsentS, FALSE, FALSE)
Calls ==
    {Call("need_convert_vcodec", Get(v), FALSE, FALSE) : v \in VideoCodecs} \cup
    {Call("need_convert_acodec", Get(a), FALSE, FALSE) : a \in AudioCodecs}

\* ------------------------------------------------ the stored files
\* files.py line 40: at most 20 files are displayed.
ListLimit == 20

\* What list_firebase_files returns: None, or the list of the stored files.
Files(none, files) == [none |-> none, files |-> files]

RECURSIVE NewestFirst(_)
\* files.sort(key=created, reverse=True): a file uploaded later was created
\* later.
NewestFirst(S) ==
    IF S = {} THEN <<>>
    ELSE LET newest == CHOOSE f \in S : \A g \in S : g <= f
         IN  <<newest>> \o NewestFirst(S \ {newest})

\* list_firebase_files followed by the sort of the handlers.
SortedFiles(stored, fails) ==
    IF fails THEN Files(TRUE, <<>>) ELSE Files(FALSE, NewestFirst(stored))

\* files[:20]
Displayed(files) ==
    SubSeq(files, 1, IF Len(files) < ListLimit THEN Len(files) ELSE ListLimit)

\* A run of delete_file_callback: the index of the button, the file that
\* button was displayed with, whether that file was still stored, the file
\* deleted (0: none), and the answer given.
Click(idx, entry, existed, deleted, result) ==
    [idx |-> idx, shown |-> entry, existed |-> existed, deleted |-> deleted,
     result |-> result]
NoClick == Click(0, 0, FALSE, 0, "none")

FilesIdle == store = {} /\ uploaded = 0 /\ listing = <<>> /\ click = NoClick

\* ------------------------------------------------------ authorization
RECURSIVE Split(_)
\* str.split(','): the pieces between the commas, one piece if there is none.
Split(text) ==
    IF \E i \in 1..Len(text) : SubSeq(text, i, i) = ","
    THEN LET i == CHOOSE j \in 1..Len(text) :
                      /\ SubSeq(text, j, j) = ","
                      /\ \A k \in 1..(j - 1) : SubSeq(text, k, k) # ","
         IN  <<SubSeq(text, 1, i - 1)>> \o Split(SubSeq(text, i + 1, Len(text)))
    ELSE <<text>>

\* settings.py line 16: ALLOWED_USERS from the environment.
ALLOWED_USERS(env) == Split(env)

\* Mutant of IsAllowed: the id is looked for in the text of the setting, not
\* among its entries.
IsAllowedInText(id, env) ==
    \E i \in 1..Len(env) : \E j \in i..Len(env) : SubSeq(env, i, j) = ToString(id)

\* common.py line 21: str(user.id) in settings.ALLOWED_USERS.
IsAllowed(id, env) ==
    \E i \in 1..Len(ALLOWED_USERS(env)) : ALLOWED_USERS(env)[i] = ToString(id)

Handlers == {"process_url", "list_files", "delete_file_callback"}

\* An update on its way through the wrapper: the handler it is routed to,
\* its effective user (0: none), the ALLOWED_USERS setting, the wrapper's
\* position and what the wrapper told the user.
Auth(handler, user, env, at, notice) ==
    [handler |-> handler, user |-> user, env |-> env, at |-> at, notice |-> notice]
NoAuth == Auth("none", 0, "", "none", "")
AuthInputs ==
    {Auth(h, u, env, "wrapper", "") :
        h \in Handlers, u \in {0, 1, 12}, env \in {"", "12,3"}}

\* What storage holds when the update arrives, and what a listing made
\* before the last upload displayed.
StoredAtFirst == {1, 2, 3}
ListedAtFirst == <<2, 1>>

\* ------------------------------------------- two contexts side by side
RunIds == {1, 2}

\* An invocation of process_url and the DownloadContext it builds. Objects
\* (the Event, the two one-element lists, the dict) are named by their
\* position in world.heap; 0 stands for "not there yet".
Run(at, wat) ==
    [at |-> at, wat |-> wat, temp_dir |-> 0, temp_path |-> [dir |-> 0, file |-> ""],
     download_complete |-> 0, download_result |-> 0, download_error |-> 0,
     progress_data |-> 0]
NoRuns == [r \in RunIds |-> Run("none", "unstarted")]
EmptyWorld == [dirs |-> {}, files |-> {}, heap |-> <<>>, made |-> 0]
Access(r, objs, paths) == [run |-> r, objs |-> objs, paths |-> paths]
NoAccess == Access(0, {}, {})

\* The objects a context holds.
Owned(c) ==
    {c.download_complete, c.download_result, c.download_error, c.progress_data} \ {0}

\* Mutant of NewObjects: the progress dict is one object for all contexts
\* (a default made once), only the other three are made anew.
NewObjectsSharedHolder(heap) ==
    [download_complete |-> Len(heap) + 1, download_result |-> Len(heap) + 2,
     download_error |-> Len(heap) + 3,
     progress_data |-> 4]

\* DownloadContext.__init__ lines 29-32: threading.Event(), [None], [None], {}
\* are evaluated on every construction, so each is a new object.
NewObjects(heap) ==
    [download_complete |-> Len(heap) + 1, download_result |-> Len(heap) + 2,
     download_error |-> Len(heap) + 3, progress_data |-> Len(heap) + 4]

\* ------------------------------------------------------------------- Init
Init ==
    /\ dv = NoFrame /\ call = NoCall
    /\ ctxs = NoRuns /\ world = EmptyWorld /\ last = NoAccess
    /\ fmt = NoFormatCall
    /\ FilesIdle
    /\ auth = NoAuth
    /\ update \in Updates
    /\ info = NoInfo
    /\ upload_result = "unset"
    /\ pc = "start"
    /\ wpc = "unstarted"
    /\ now = StartTime
    /\ status_created = FALSE
    /\ temp_dir = FALSE
    /\ dirExists = FALSE
    /\ fileExists = FALSE
    /\ fileSize = 0
    /\ download_complete = FALSE
    /\ download_result = "None"
    /\ download_error = "None"
    /\ progress_data = EmptyHolder
    /\ hook = EmptyHolder
    /\ nProgress = 0
    /\ dvOutcome = "none"
    /\ prev_message = EmptyMsg
    /\ last_update_time = 0
    /\ message = EmptyMsg
    /\ monitorRaised = FALSE
    /\ exc = "none"
    /\ cret = "none"
    /\ edits = <<>>
    /\ shown = EmptyMsg
    /\ pollerEdit = NoPollerEdit
    /\ replies = <<>>
    /\ outcome = "running"
    /\ nWrites = 0
    /\ lastSnap = EmptyHolder
    /\ reads = <<>>
    /\ finishedWritten = FALSE
    /\ finishedRead = FALSE
    /\ cleanups = 0
    /\ removals = 0
    /\ cleanupFailed = FALSE

\* ------------------------------------------------------ the worker thread
thread_is_alive == wpc \notin {"unstarted", "dead"}

\* download_video raises before its own try block is entered.
DownloadVideoRaises ==
    /\ wpc = "download"
    /\ nProgress = 0
    /\ ~fileExists
    /\ wpc' = "returned"
    /\ dvOutcome' = "raise"
    /\ UNCHANGED <<download_complete, download_result, download_error, hook,
                   nProgress, nWrites, lastSnap, finishedWritten>>
    /\ UNCHANGED <<auxVars, orchVars, dirExists, fileExists, fileSize, progress_data>>

\* on_progress / on_postprocess, first statement: progress_data.clear().
HookClear ==
    /\ wpc = "download"
    /\ nProgress < MaxProgress
    /\ \E h \in {Holder("download_progress", d) : d \in ProgressInputs}
            \cup {Holder("postprocess_progress", d) : d \in PostprocessInputs} :
          hook' = h
    /\ progress_data' = EmptyHolder
    /\ nProgress' = nProgress + 1
    /\ wpc' = "hook"
    /\ UNCHANGED <<download_complete, download_result, download_error, dvOutcome,
                   nWrites, lastSnap, finishedWritten>>
    /\ UNCHANGED <<auxVars, orchVars, dirExists, fileExists, fileSize>>

\* second statement: progress_data.update({key: d.copy()}).
HookUpdate ==
    /\ wpc = "hook"
    /\ progress_data' = hook
    /\ lastSnap' = hook
    /\ finishedWritten' =
          (finishedWritten \/ (hook.key = "download_progress" /\ hook.d.status = "finished"))
    /\ wpc' = "download"
    /\ UNCHANGED <<download_complete, download_result, download_error, hook,
                   nProgress, dvOutcome, nWrites>>
    /\ UNCHANGED <<auxVars, orchVars, dirExists, fileExists, fileSize>>

\* The external download writes the output file into the working directory.
DownloadWritesFile ==
    /\ wpc = "download"
    /\ dirExists
    /\ ~fileExists
    /\ fileExists' = TRUE
    /\ \E s \in FileSizes : fileSize' = s
    /\ UNCHANGED <<auxVars, workerVars, orchVars, dirExists, progress_data>>

\* ydl.download returns or raises; lines 115-122 decide the returned value.
DownloadVideoReturns ==
    /\ wpc = "download"
    /\ \E raised \in BOOLEAN :
          dvOutcome' = IF ~raised /\ fileExists /\ fileSize > 0 THEN "path" ELSE "None"
    /\ wpc' = "returned"
    /\ UNCHANGED <<download_complete, download_result, download_error, hook,
                   nProgress, nWrites, lastSnap, finishedWritten>>
    /\ UNCHANGED <<auxVars, orchVars, dirExists, fileExists, fileSize, progress_data>>

\* Mutant of WriteOutcome: the error slot is written as well as the result.
WriteOutcomeAndError ==
    /\ wpc = "returned"
    /\ download_result' = IF dvOutcome = "raise" THEN "None" ELSE dvOutcome
    /\ download_error' = "error"
    /\ nWrites' = nWrites + 2
    /\ wpc' = "finally"
    /\ UNCHANGED <<download_complete, hook, nProgress, dvOutcome, lastSnap,
                   finishedWritten>>
    /\ UNCHANGED <<auxVars, orchVars, dirExists, fileExists, fileSize, progress_data>>

\* download_thread, lines 77 and 80: the one write of the terminal outcome.
WriteOutcome ==
    /\ wpc = "returned"
    /\ IF dvOutcome = "raise"
       THEN download_error' = "error" /\ UNCHANGED download_result
       ELSE download_result' = dvOutcome /\ UNCHANGED download_error
    /\ nWrites' = nWrites + 1
    /\ wpc' = "finally"
    /\ UNCHANGED <<download_complete, hook, nProgress, dvOutcome, lastSnap,
                   finishedWritten>>
    /\ UNCHANGED <<auxVars, orchVars, dirExists, fileExists, fileSize, progress_data>>

\* Mutant of SetComplete: the signal is raised before the outcome is written.
SetCompleteBeforeWrite ==
    /\ wpc \in {"returned", "finally"}
    /\ ~download_complete
    /\ download_complete' = TRUE
    /\ wpc' = IF wpc = "finally" THEN "signaled" ELSE wpc
    /\ UNCHANGED <<download_result, download_error, hook, nProgress, dvOutcome,
                   nWrites, lastSnap, finishedWritten>>
    /\ UNCHANGED <<auxVars, orchVars, dirExists, fileExists, fileSize, progress_data>>

\* Mutant of SetComplete: the signal is raised at the end of the try block,
\* after the result was stored, and not when download_video raised.
SetCompleteOnlyOnResult ==
    /\ wpc = "finally"
    /\ download_complete' = (download_error = "None")
    /\ wpc' = "signaled"
    /\ UNCHANGED <<download_result, download_error, hook, nProgress, dvOutcome,
                   nWrites, lastSnap, finishedWritten>>
    /\ UNCHANGED <<auxVars, orchVars, dirExists, fileExists, fileSize, progress_data>>

\* download_thread, line 83: ctx.download_complete.set().
SetComplete ==
    /\ wpc = "finally"
    /\ download_complete' = TRUE
    /\ wpc' = "signaled"
    /\ UNCHANGED <<download_result, download_error, hook, nProgress, dvOutcome,
                   nWrites, lastSnap, finishedWritten>>
    /\ UNCHANGED <<auxVars, orchVars, dirExists, fileExists, fileSize, progress_data>>

\* Mutant of ThreadExit: the thread itself writes its result into the status
\* message before it ends.
ThreadExitReporting ==
    /\ wpc = "signaled"
    /\ wpc' = "dead"
    /\ shown' = SorryMsg
    /\ UNCHANGED <<download_complete, download_result, download_error, hook,
                   nProgress, dvOutcome, nWrites, lastSnap, finishedWritten>>
    /\ UNCHANGED <<auxVars, update, info, upload_result, removals, cleanupFailed, pc, now, status_created, temp_dir,
                   prev_message, last_update_time, message, monitorRaised, exc, cret,
                   edits, pollerEdit, replies, outcome, reads, finishedRead, cleanups>>
    /\ UNCHANGED <<dirExists, fileExists, fileSize, progress_data>>

\* download_thread returns: the thread is no longer alive.
ThreadExit ==
    /\ wpc = "signaled"
    /\ wpc' = "dead"
    /\ UNCHANGED <<download_complete, download_result, download_error, hook,
                   nProgress, dvOutcome, nWrites, lastSnap, finishedWritten>>
    /\ UNCHANGED <<auxVars, orchVars, dirExists, fileExists, fileSize, progress_data>>

Worker ==
    \/ DownloadVideoRaises
    \/ HookClear
    \/ HookUpdate
    \/ DownloadWritesFile
    \/ DownloadVideoReturns
    \/ WriteOutcome
    \/ SetComplete
    \/ ThreadExit

\* ------------------------------------------------- the event loop thread
\* An edit of the status message: its text, when it was issued, by whom,
\* and whether Telegram accepted it.
EditRec(text, ok) == [text |-> text, ok |-> ok]
Shown(text, ok) == IF ok THEN text ELSE shown
StatusEdit(text, ok) ==
    /\ edits' = Append(edits, EditRec(text, ok))
    /\ shown' = Shown(text, ok)

\* What a read of the holder observed, and whether that was a complete
\* snapshot: the holder as the last completed hook left it (a hook that is
\* under way has emptied the holder and not yet stored its own snapshot).
ReadRec == [seen |-> progress_data, complete |-> progress_data = lastSnap]

\* extract_video_info's results: it raises, or returns the metadata, of
\* which _check_file_size reads 'filesize'.
Extractions ==
    {[raised |-> TRUE, info |-> NoInfo]} \cup
    {[raised |-> FALSE, info |-> i] : i \in Infos}

\* Mutant of FileSizeAccepted: a size equal to the limit is refused too.
FileSizeAcceptedBelowLimit(filesize) ==
    ~(filesize.t = "int" /\ filesize.v # 0 /\ filesize.v >= MAX_FILE_SIZE)

\* _check_file_size, line 64.
FileSizeAccepted(filesize) ==
    ~(filesize.t = "int" /\ filesize.v # 0 /\ filesize.v > MAX_FILE_SIZE)

\* process_url lines 175-184: validation and the status message.
ValidateUrl ==
    /\ pc = "start"
    /\ IF ~update.hasText
       THEN /\ pc' = "returned" /\ outcome' = "ignored"
            /\ UNCHANGED <<status_created, shown, replies>>
       ELSE IF ~update.valid
       THEN /\ replies' = Append(replies, "Please provide a valid URL.")
            /\ pc' = "returned" /\ outcome' = "invalid"
            /\ UNCHANGED <<status_created, shown>>
       ELSE IF ~update.supported
       THEN /\ replies' = Append(replies, "Sorry, this URL is not from a supported platform.")
            /\ pc' = "returned" /\ outcome' = "unsupported"
            /\ UNCHANGED <<status_created, shown>>
       ELSE /\ status_created' = TRUE
            /\ shown' = InitialStatus
            /\ pc' = "extract"
            /\ UNCHANGED <<replies, outcome>>
    /\ UNCHANGED <<now, temp_dir, prev_message, last_update_time, message, monitorRaised,
                   exc, cret, edits, reads, finishedRead, cleanups, pollerEdit>>
    /\ UNCHANGED <<workerVars, dirExists, fileExists, fileSize, progress_data>>
    /\ UNCHANGED <<auxVars, update, info, upload_result, removals, cleanupFailed>>

\* process_url lines 188-198: extraction, size pre-check, mkdtemp, context,
\* _create_download_thread.
ExtractAndStart ==
    /\ pc = "extract"
    /\ \E x \in Extractions :
          /\ info' = x.info
          /\ IF x.raised
             THEN /\ exc' = "extraction" /\ pc' = "except"
                  /\ UNCHANGED <<edits, shown, outcome, temp_dir, dirExists, wpc>>
             ELSE IF ~FileSizeAccepted(x.info.filesize)
             THEN /\ \E ok \in BOOLEAN : StatusEdit(TooLargeMsg, ok)
                  /\ pc' = "returned" /\ outcome' = "too_large"
                  /\ UNCHANGED <<exc, temp_dir, dirExists, wpc>>
             ELSE /\ temp_dir' = TRUE /\ dirExists' = TRUE
                  /\ wpc' = "download"
                  /\ pc' = "monitor"
                  /\ UNCHANGED <<exc, edits, shown, outcome>>
    /\ UNCHANGED <<now, status_created, prev_message, last_update_time, message,
                   monitorRaised, cret, replies, reads, finishedRead, cleanups,
                   pollerEdit>>
    /\ UNCHANGED <<download_complete, download_result, download_error, hook, nProgress,
                   dvOutcome, nWrites, lastSnap, finishedWritten>>
    /\ UNCHANGED <<fileExists, fileSize, progress_data>>
    /\ UNCHANGED <<auxVars, update, upload_result, removals, cleanupFailed>>

\* Mutant of GateOpen: the gate opens on every poll tick.
GateOpenEveryTick == now - last_update_time >= PollTick

\* The gate of line 98.
GateOpen == now - last_update_time >= MinInterval

\* _monitor_download_progress is left (it returns, raises or is cancelled):
\* its locals are gone, and with them the record of its last edit.
PollerLeft ==
    /\ prev_message' = EmptyMsg
    /\ last_update_time' = 0
    /\ message' = EmptyMsg
    /\ pollerEdit' = NoPollerEdit

\* _monitor_download_progress lines 96-99: the loop test and the time gate.
MonitorLoop ==
    /\ pc = "monitor"
    /\ IF download_complete
       THEN pc' = "join" /\ PollerLeft /\ UNCHANGED reads
       ELSE IF GateOpen
       THEN /\ pc' = "b_test_dl" /\ last_update_time' = now /\ reads' = <<>>
            /\ UNCHANGED <<prev_message, message, pollerEdit>>
       ELSE /\ pc' = "sleep"
            /\ UNCHANGED <<last_update_time, reads, prev_message, message, pollerEdit>>
    /\ UNCHANGED <<now, status_created, temp_dir, monitorRaised,
                   exc, cret, edits, shown, replies, outcome, finishedRead, cleanups>>
    /\ UNCHANGED <<workerVars, dirExists, fileExists, fileSize, progress_data>>
    /\ UNCHANGED <<auxVars, update, info, upload_result, removals, cleanupFailed>>

\* _build_progress_message line 110: 'download_progress' in ctx.progress_data.
BuildTestDownload ==
    /\ pc = "b_test_dl"
    /\ reads' = Append(reads, ReadRec)
    /\ IF progress_data.key = "download_progress"
       THEN pc' = "b_get_dl"
       ELSE pc' = "b_test_pp"
    /\ UNCHANGED <<now, status_created, temp_dir, prev_message, last_update_time, message,
                   monitorRaised, exc, cret, edits, shown, replies, outcome, finishedRead, cleanups, pollerEdit>>
    /\ UNCHANGED <<workerVars, dirExists, fileExists, fileSize, progress_data>>
    /\ UNCHANGED <<auxVars, update, info, upload_result, removals, cleanupFailed>>

\* The text of line 116: the size of temp_path in hundredths of a MiB.
FileSizeMessage ==
    Msg("Downloading... MB downloaded",
        (fileSize \div BYTES_MB) * 100 + ((fileSize % BYTES_MB) * 100) \div BYTES_MB, 0, 0)
FinishedMessage == Msg("Download complete. Processing video...", 0, 0, 0)

\* _build_progress_message lines 111-121 and the fall-through to line 125.
BuildGetDownload ==
    /\ pc = "b_get_dl"
    /\ LET dl == IF progress_data.key = "download_progress" THEN progress_data.d ELSE EmptyD
       IN  /\ finishedRead' = (finishedRead \/ (~dl.empty /\ dl.status = "finished"))
           /\ IF dl.status = "downloading" /\ ~(dl.empty /\ fileExists)
                 /\ DownloadMessageRaises(dl)
              THEN monitorRaised' = TRUE /\ pc' = "join" /\ PollerLeft /\ reads' = <<>>
              ELSE /\ message' = IF dl.empty /\ fileExists THEN FileSizeMessage
                                ELSE IF dl.status = "downloading"
                                THEN build_download_progress_message(dl)
                                ELSE IF dl.status = "finished" THEN FinishedMessage
                                ELSE EmptyMsg
                   /\ pc' = "decide"
                   /\ reads' = Append(reads, ReadRec)
                   /\ UNCHANGED <<monitorRaised, prev_message, last_update_time, pollerEdit>>
    /\ UNCHANGED <<now, status_created, temp_dir,
                   exc, cret, edits, shown, replies, outcome, cleanups>>
    /\ UNCHANGED <<workerVars, dirExists, fileExists, fileSize, progress_data>>
    /\ UNCHANGED <<auxVars, update, info, upload_result, removals, cleanupFailed>>

\* _build_progress_message line 122: 'postprocess_progress' in ctx.progress_data.
BuildTestPostprocess ==
    /\ pc = "b_test_pp"
    /\ reads' = Append(reads, ReadRec)
    /\ IF progress_data.key = "postprocess_progress"
       THEN pc' = "b_get_pp" /\ UNCHANGED message
       ELSE pc' = "decide" /\ message' = EmptyMsg
    /\ UNCHANGED <<now, status_created, temp_dir, prev_message, last_update_time,
                   monitorRaised, exc, cret, edits, shown, replies, outcome, finishedRead, cleanups, pollerEdit>>
    /\ UNCHANGED <<workerVars, dirExists, fileExists, fileSize, progress_data>>
    /\ UNCHANGED <<auxVars, update, info, upload_result, removals, cleanupFailed>>

\* _build_progress_message lines 123-124.
BuildGetPostprocess ==
    /\ pc = "b_get_pp"
    /\ reads' = Append(reads, ReadRec)
    /\ LET pp == IF progress_data.key = "postprocess_progress" THEN progress_data.d ELSE EmptyD
       IN  message' = build_pp_progress_message(pp)
    /\ pc' = "decide"
    /\ UNCHANGED <<now, status_created, temp_dir, prev_message, last_update_time,
                   monitorRaised, exc, cret, edits, shown, replies, outcome, finishedRead, cleanups, pollerEdit>>
    /\ UNCHANGED <<workerVars, dirExists, fileExists, fileSize, progress_data>>
    /\ UNCHANGED <<auxVars, update, info, upload_result, removals, cleanupFailed>>

\* The condition of line 102.
ShouldEdit == prev_message # message /\ message # EmptyMsg

\* _monitor_download_progress lines 102-104: the edit is awaited, takes
\* some time, and try_edit_text swallows its failure.
DecideEdit ==
    /\ pc = "decide"
    /\ IF ShouldEdit
       THEN /\ \E ok \in BOOLEAN : shown' = Shown(message, ok)
            /\ pollerEdit' = [n |-> pollerEdit.n + 1, text |-> message, at |-> now,
                              prevAt |-> pollerEdit.at, shownBefore |-> shown]
            /\ \E delay \in 0..MaxEditDelay : now + delay <= MaxTime /\ now' = now + delay
            /\ prev_message' = message
       ELSE UNCHANGED <<shown, pollerEdit, now, prev_message>>
    /\ reads' = <<>>
    /\ pc' = "sleep"
    /\ UNCHANGED <<status_created, temp_dir, last_update_time, message, monitorRaised,
                   exc, cret, edits, replies, outcome, finishedRead, cleanups>>
    /\ UNCHANGED <<workerVars, dirExists, fileExists, fileSize, progress_data>>
    /\ UNCHANGED <<auxVars, update, info, upload_result, removals, cleanupFailed>>

\* line 106: await asyncio.sleep(0.5).
Sleep ==
    /\ pc = "sleep"
    /\ now + PollTick <= MaxTime
    /\ now' = now + PollTick
    /\ pc' = "monitor"
    /\ UNCHANGED <<status_created, temp_dir, prev_message, last_update_time, message,
                   monitorRaised, exc, cret, edits, shown, replies, outcome, reads, finishedRead,
                   cleanups, pollerEdit>>
    /\ UNCHANGED <<workerVars, dirExists, fileExists, fileSize, progress_data>>
    /\ UNCHANGED <<auxVars, update, info, upload_result, removals, cleanupFailed>>

\* asyncio.CancelledError raised at the await of line 106: lines 202-204
\* re-raise it, and the handler of line 231 (except Exception) does not
\* catch a BaseException, so it leaves process_url.
Cancelled ==
    /\ pc = "sleep"
    /\ pc' = "returned"
    /\ outcome' = "cancelled"
    /\ PollerLeft
    /\ UNCHANGED <<now, status_created, temp_dir,
                   monitorRaised, exc, cret, edits, shown, replies, reads, finishedRead, cleanups>>
    /\ UNCHANGED <<workerVars, dirExists, fileExists, fileSize, progress_data>>
    /\ UNCHANGED <<auxVars, update, info, upload_result, removals, cleanupFailed>>

\* process_url lines 208-209: is_alive(), then join(timeout=5).
JoinBegin ==
    /\ pc = "join"
    /\ pc' = IF thread_is_alive THEN "joining" ELSE "read"
    /\ UNCHANGED <<now, status_created, temp_dir, prev_message, last_update_time, message,
                   monitorRaised, exc, cret, edits, shown, replies, outcome, reads, finishedRead,
                   cleanups, pollerEdit>>
    /\ UNCHANGED <<workerVars, dirExists, fileExists, fileSize, progress_data>>
    /\ UNCHANGED <<auxVars, update, info, upload_result, removals, cleanupFailed>>

\* join returns because the thread ended, or because 5 s passed.
JoinEnd ==
    /\ pc = "joining"
    /\ IF thread_is_alive THEN now' = now + JoinTimeout ELSE UNCHANGED now
    /\ pc' = "read"
    /\ UNCHANGED <<status_created, temp_dir, prev_message, last_update_time, message,
                   monitorRaised, exc, cret, edits, shown, replies, outcome, reads, finishedRead,
                   cleanups, pollerEdit>>
    /\ UNCHANGED <<workerVars, dirExists, fileExists, fileSize, progress_data>>
    /\ UNCHANGED <<auxVars, update, info, upload_result, removals, cleanupFailed>>

\* Mutant of ReadResult: cleanup is called as soon as the result is known,
\* before the delivery step.
ReadResultThenCleanup ==
    /\ pc = "read"
    /\ IF download_error # "None"
       THEN exc' = "download" /\ pc' = "except" /\ UNCHANGED <<edits, shown, outcome, cret>>
       ELSE IF download_result = "None" \/ ~fileExists
       THEN /\ \E ok \in BOOLEAN : StatusEdit(SorryMsg, ok)
            /\ pc' = "returned" /\ outcome' = "download_failed"
            /\ UNCHANGED <<exc, cret>>
       ELSE pc' = "cleanup" /\ cret' = "deliver" /\ UNCHANGED <<exc, edits, shown, outcome>>
    /\ UNCHANGED <<now, status_created, temp_dir, prev_message, last_update_time, message,
                   monitorRaised, replies, reads, finishedRead, cleanups, pollerEdit>>
    /\ UNCHANGED <<workerVars, dirExists, fileExists, fileSize, progress_data>>
    /\ UNCHANGED <<auxVars, update, info, upload_result, removals, cleanupFailed>>

\* Mutant of ReadResult: without an error the delivery is entered whatever
\* the result slot holds.
ReadResultUnjudged ==
    /\ pc = "read"
    /\ IF download_error # "None"
       THEN exc' = "download" /\ pc' = "except"
       ELSE pc' = "deliver" /\ UNCHANGED exc
    /\ UNCHANGED <<now, status_created, temp_dir, prev_message, last_update_time, message,
                   monitorRaised, cret, replies, reads, finishedRead, cleanups, pollerEdit,
                   edits, shown, outcome>>
    /\ UNCHANGED <<workerVars, dirExists, fileExists, fileSize, progress_data>>
    /\ UNCHANGED <<auxVars, update, info, upload_result, removals, cleanupFailed>>

\* process_url lines 211-218: the terminal result is read and judged.
ReadResult ==
    /\ pc = "read"
    /\ IF download_error # "None"
       THEN exc' = "download" /\ pc' = "except" /\ UNCHANGED <<edits, shown, outcome>>
       ELSE IF download_result = "None" \/ ~fileExists
       THEN /\ \E ok \in BOOLEAN : StatusEdit(SorryMsg, ok)
            /\ pc' = "returned" /\ outcome' = "download_failed"
            /\ UNCHANGED exc
       ELSE pc' = "deliver" /\ UNCHANGED <<exc, edits, shown, outcome>>
    /\ UNCHANGED <<now, status_created, temp_dir, prev_message, last_update_time, message,
                   monitorRaised, cret, replies, reads, finishedRead, cleanups, pollerEdit>>
    /\ UNCHANGED <<workerVars, dirExists, fileExists, fileSize, progress_data>>
    /\ UNCHANGED <<auxVars, update, info, upload_result, removals, cleanupFailed>>

\* _handle_large_file lines 129-133: the size test and, over the limit,
\* status_message.edit_text, which may raise.
HandleLargeFile ==
    /\ pc = "deliver"
    /\ IF fileSize <= MAX_TELEGRAM_FILE_SIZE
       THEN pc' = "send" /\ UNCHANGED <<edits, shown, exc>>
       ELSE \E ok \in BOOLEAN :
              /\ StatusEdit(FileTooLargeMsg, ok)
              /\ IF ok THEN pc' = "upload" /\ UNCHANGED exc
                       ELSE pc' = "except" /\ exc' = "edit"
    /\ UNCHANGED <<now, status_created, temp_dir, prev_message, last_update_time, message,
                   monitorRaised, cret, replies, outcome, reads, finishedRead, cleanups, pollerEdit>>
    /\ UNCHANGED <<workerVars, dirExists, fileExists, fileSize, progress_data>>
    /\ UNCHANGED <<auxVars, update, info, upload_result, removals, cleanupFailed>>

\* upload_to_firebase: None when Firebase is not initialised (line 28-30),
\* the public URL (line 46), or None when the upload raised (line 50-52).
UploadResults == {"url", "None: not initialized", "None: upload error"}
upload_to_firebase(r) == IF r = "url" THEN "url" ELSE "None"

\* _handle_large_file line 135: info.get('title', 'video'); only the empty
\* metadata has no title.
Title(i) == IF i.kind = "empty" THEN "video" ELSE "T"
\* The text of the incoming message, and the public URL of an upload.
Url == "U"
DownloadUrl == "D"

\* Mutant of Caption: the size is given in bytes.
CaptionInBytes(title, file_size, download_url, url) ==
    "Title: " \o title \o "\nSize: " \o ToString(file_size)
        \o "MB (too large for Telegram)\nDownload: " \o download_url
        \o "\nSource: " \o url

\* _handle_large_file lines 140-143.
Caption(title, file_size, download_url, url) ==
    "Title: " \o title \o "\nSize: " \o ToString(file_size \div BYTES_MB)
        \o "MB (too large for Telegram)\nDownload: " \o download_url
        \o "\nSource: " \o url

UploadFailedMsg == Msg("Sorry, failed to upload the video to cloud storage.", 0, 0, 0)

\* _handle_large_file lines 139-149: what is sent for a result of
\* upload_to_firebase, the link or the notice of the failure.
OverflowNotice(r) ==
    IF upload_to_firebase(r) # "None" THEN Msg("link", 0, 0, 0) ELSE UploadFailedMsg

\* Mutant of UploadLargeFile: after the upload _handle_large_file returns
\* False, so the inline send follows.
UploadLargeFileThenSend ==
    /\ pc = "upload"
    /\ \E r \in UploadResults, ok \in BOOLEAN :
          /\ upload_result' = r
          /\ IF upload_to_firebase(r) # "None"
             THEN /\ replies' = IF ok
                                   THEN Append(replies,
                                               Caption(Title(info), fileSize, DownloadUrl, Url))
                                   ELSE replies
                  /\ UNCHANGED <<edits, shown>>
             ELSE /\ StatusEdit(OverflowNotice(r), ok)
                  /\ UNCHANGED replies
          /\ IF ok THEN pc' = "send" /\ UNCHANGED <<exc, cret>>
                   ELSE /\ pc' = "except" /\ UNCHANGED cret
                        /\ exc' = IF upload_to_firebase(r) # "None" THEN "reply" ELSE "edit"
    /\ UNCHANGED <<now, status_created, temp_dir, prev_message, last_update_time, message,
                   monitorRaised, outcome, reads, finishedRead, cleanups, pollerEdit>>
    /\ UNCHANGED <<workerVars, dirExists, fileExists, fileSize, progress_data>>
    /\ UNCHANGED <<auxVars, update, info, removals, cleanupFailed>>

\* _handle_large_file lines 135-150: upload_to_firebase returns a URL or
\* None; then the link reply, or the edit that reports the failed upload.
UploadLargeFile ==
    /\ pc = "upload"
    /\ \E r \in UploadResults, ok \in BOOLEAN :
          /\ upload_result' = r
          /\ IF upload_to_firebase(r) # "None"
             THEN /\ replies' = IF ok
                                   THEN Append(replies,
                                               Caption(Title(info), fileSize, DownloadUrl, Url))
                                   ELSE replies
                  /\ UNCHANGED <<edits, shown>>
             ELSE /\ StatusEdit(OverflowNotice(r), ok)
                  /\ UNCHANGED replies
          /\ IF ok THEN pc' = "cleanup" /\ cret' = "delete" /\ UNCHANGED exc
                   ELSE /\ pc' = "except" /\ UNCHANGED cret
                        /\ exc' = IF upload_to_firebase(r) # "None" THEN "reply" ELSE "edit"
    /\ UNCHANGED <<now, status_created, temp_dir, prev_message, last_update_time, message,
                   monitorRaised, outcome, reads, finishedRead, cleanups, pollerEdit>>
    /\ UNCHANGED <<workerVars, dirExists, fileExists, fileSize, progress_data>>
    /\ UNCHANGED <<auxVars, update, info, removals, cleanupFailed>>

\* _send_video_to_telegram: try_edit_text, then reply_video, which may raise.
SendVideo ==
    /\ pc = "send"
    /\ \E editOk \in BOOLEAN, ok \in BOOLEAN :
          /\ StatusEdit(UploadInProgressMsg, editOk)
          /\ IF ok
             THEN /\ replies' = Append(replies, "video")
                  /\ pc' = "cleanup" /\ cret' = "delete" /\ UNCHANGED exc
             ELSE /\ pc' = "except" /\ exc' = "reply" /\ UNCHANGED <<replies, cret>>
    /\ UNCHANGED <<now, status_created, temp_dir, prev_message, last_update_time, message,
                   monitorRaised, outcome, reads, finishedRead, cleanups, pollerEdit>>
    /\ UNCHANGED <<workerVars, dirExists, fileExists, fileSize, progress_data>>
    /\ UNCHANGED <<auxVars, update, info, upload_result, removals, cleanupFailed>>

\* Mutant of CleanupBegin: cleanup goes on to delete without joining.
CleanupBeginNoWait ==
    /\ pc = "cleanup"
    /\ cleanups' = cleanups + 1
    /\ pc' = "c_remove"
    /\ UNCHANGED <<now, status_created, temp_dir, prev_message, last_update_time, message,
                   monitorRaised, exc, cret, edits, shown, replies, outcome, reads, finishedRead, pollerEdit>>
    /\ UNCHANGED <<workerVars, dirExists, fileExists, fileSize, progress_data>>
    /\ UNCHANGED <<auxVars, update, info, upload_result, removals, cleanupFailed>>

\* DownloadContext.cleanup lines 37-39: is_alive(), then join(timeout=2).
CleanupBegin ==
    /\ pc = "cleanup"
    /\ cleanups' = cleanups + 1
    /\ pc' = IF thread_is_alive THEN "c_joining" ELSE "c_remove"
    /\ UNCHANGED <<now, status_created, temp_dir, prev_message, last_update_time, message,
                   monitorRaised, exc, cret, edits, shown, replies, outcome, reads, finishedRead, pollerEdit>>
    /\ UNCHANGED <<workerVars, dirExists, fileExists, fileSize, progress_data>>
    /\ UNCHANGED <<auxVars, update, info, upload_result, removals, cleanupFailed>>

CleanupJoinEnd ==
    /\ pc = "c_joining"
    /\ IF thread_is_alive THEN now' = now + CleanupJoinTimeout ELSE UNCHANGED now
    /\ pc' = "c_remove"
    /\ UNCHANGED <<status_created, temp_dir, prev_message, last_update_time, message,
                   monitorRaised, exc, cret, edits, shown, replies, outcome, reads, finishedRead,
                   cleanups, pollerEdit>>
    /\ UNCHANGED <<workerVars, dirExists, fileExists, fileSize, progress_data>>
    /\ UNCHANGED <<auxVars, update, info, upload_result, removals, cleanupFailed>>

\* What can go wrong in lines 41-44: nothing, os.unlink raises, or
\* shutil.rmtree raises; a raise skips the rest of the try block.
CleanupFailures == {"none", "unlink", "rmtree"}

\* Mutant of CleanupRemove: an exception of unlink or rmtree is not caught
\* in cleanup and reaches the handler of process_url.
CleanupRemovePropagating ==
    /\ pc = "c_remove"
    /\ \E fail \in CleanupFailures :
          LET unlinks == download_result = "path" /\ fileExists
          IN  /\ (fail = "unlink") => unlinks
              /\ (fail = "rmtree") => dirExists
              /\ fileExists' = IF fail = "unlink" THEN fileExists
                               ELSE IF fail = "rmtree" THEN fileExists /\ ~unlinks
                               ELSE FALSE
              /\ dirExists' = IF fail = "none" THEN FALSE ELSE dirExists
              /\ removals' = IF fail = "none" /\ dirExists THEN removals + 1 ELSE removals
              /\ cleanupFailed' = (cleanupFailed \/ fail # "none")
              /\ IF fail = "none"
                 THEN pc' = cret /\ UNCHANGED exc
                 ELSE /\ pc' = (IF cret = "returned" THEN "returned" ELSE "except")
                      /\ exc' = "cleanup"
    /\ UNCHANGED outcome
    /\ UNCHANGED <<now, status_created, temp_dir, prev_message, last_update_time, message,
                   monitorRaised, cret, edits, shown, replies, reads, finishedRead, cleanups, pollerEdit>>
    /\ UNCHANGED <<workerVars, fileSize, progress_data>>
    /\ UNCHANGED <<auxVars, update, info, upload_result>>

\* DownloadContext.cleanup lines 41-46: unlink the result if it is set and
\* exists, rmtree temp_dir if it exists; an exception is logged and
\* swallowed; then the caller continues (delete the status message, or
\* return).
CleanupRemove ==
    /\ pc = "c_remove"
    /\ \E fail \in CleanupFailures :
          LET unlinks == download_result = "path" /\ fileExists
          IN  /\ (fail = "unlink") => unlinks
              /\ (fail = "rmtree") => dirExists
              /\ fileExists' = IF fail = "unlink" THEN fileExists
                               ELSE IF fail = "rmtree" THEN fileExists /\ ~unlinks
                               ELSE FALSE
              /\ dirExists' = IF fail = "none" THEN FALSE ELSE dirExists
              /\ removals' = IF fail = "none" /\ dirExists THEN removals + 1 ELSE removals
              /\ cleanupFailed' = (cleanupFailed \/ fail # "none")
    /\ pc' = cret
    /\ UNCHANGED outcome
    /\ UNCHANGED <<now, status_created, temp_dir, prev_message, last_update_time, message,
                   monitorRaised, exc, cret, edits, shown, replies, reads, finishedRead, cleanups, pollerEdit>>
    /\ UNCHANGED <<workerVars, fileSize, progress_data>>
    /\ UNCHANGED <<auxVars, update, info, upload_result>>

\* process_url lines 224 and 229: status_message.delete(), which may raise.
DeleteStatus ==
    /\ pc = "delete"
    /\ \E ok \in BOOLEAN :
          IF ok
          THEN /\ status_created' = FALSE
               /\ pc' = "returned" /\ outcome' = "delivered" /\ UNCHANGED exc
          ELSE /\ pc' = "except" /\ exc' = "delete" /\ UNCHANGED <<status_created, outcome>>
    /\ UNCHANGED <<now, temp_dir, prev_message, last_update_time, message,
                   monitorRaised, cret, edits, shown, replies, reads, finishedRead, cleanups, pollerEdit>>
    /\ UNCHANGED <<workerVars, dirExists, fileExists, fileSize, progress_data>>
    /\ UNCHANGED <<auxVars, update, info, upload_result, removals, cleanupFailed>>

\* Mutant of HandleException: after a failed extraction the handler starts
\* the run over.
HandleExceptionRetrying ==
    /\ pc = "except"
    /\ \E ok \in BOOLEAN :
          StatusEdit(ErrorMsg(exc), ok)
    /\ outcome' = "error"
    /\ IF exc = "extraction"
       THEN pc' = "extract" /\ UNCHANGED cret
       ELSE IF temp_dir
       THEN pc' = "cleanup" /\ cret' = "returned"
       ELSE pc' = "returned" /\ UNCHANGED cret
    /\ UNCHANGED <<now, status_created, temp_dir, prev_message, last_update_time, message,
                   monitorRaised, exc, replies, reads, finishedRead, cleanups, pollerEdit>>
    /\ UNCHANGED <<workerVars, dirExists, fileExists, fileSize, progress_data>>
    /\ UNCHANGED <<auxVars, update, info, upload_result, removals, cleanupFailed>>

\* process_url lines 231-235: the handler reports the error and, if a
\* context exists, runs cleanup.
HandleException ==
    /\ pc = "except"
    /\ \E ok \in BOOLEAN :
          StatusEdit(ErrorMsg(exc), ok)
    /\ outcome' = "error"
    /\ IF temp_dir
       THEN pc' = "cleanup" /\ cret' = "returned"
       ELSE pc' = "returned" /\ UNCHANGED cret
    /\ UNCHANGED <<now, status_created, temp_dir, prev_message, last_update_time, message,
                   monitorRaised, exc, replies, reads, finishedRead, cleanups, pollerEdit>>
    /\ UNCHANGED <<workerVars, dirExists, fileExists, fileSize, progress_data>>
    /\ UNCHANGED <<auxVars, update, info, upload_result, removals, cleanupFailed>>

Orchestrator ==
    \/ ValidateUrl
    \/ ExtractAndStart
    \/ MonitorLoop
    \/ BuildTestDownload
    \/ BuildGetDownload
    \/ BuildTestPostprocess
    \/ BuildGetPostprocess
    \/ DecideEdit
    \/ Sleep
    \/ Cancelled
    \/ JoinBegin
    \/ JoinEnd
    \/ ReadResult
    \/ HandleLargeFile
    \/ UploadLargeFile
    \/ SendVideo
    \/ CleanupBegin
    \/ CleanupJoinEnd
    \/ CleanupRemove
    \/ DeleteStatus
    \/ HandleException

Next == Worker \/ Orchestrator

Spec == Init /\ [][Next]_vars

\* --------------------------------------------- the run without a time horizon
\* For the properties of infinite runs the clock must not stop.  The run is
\* started with the clock at MaxTime, and every asyncio.sleep(0.5) of line
\* 106 moves the origin of time on by one tick instead of the clock: the
\* loop reads the clock only in the difference of line 98.  Awaited edits
\* take no time here, and the times kept in pollerEdit are those of the
\* origin they were taken in.
ProcessAtStartLive ==
    /\ update \in Updates
    /\ info = NoInfo
    /\ upload_result = "unset"
    /\ pc = "start"
    /\ wpc = "unstarted"
    /\ now = MaxTime
    /\ status_created = FALSE
    /\ temp_dir = FALSE
    /\ dirExists = FALSE
    /\ fileExists = FALSE
    /\ fileSize = 0
    /\ download_complete = FALSE
    /\ download_result = "None"
    /\ download_error = "None"
    /\ progress_data = EmptyHolder
    /\ hook = EmptyHolder
    /\ nProgress = 0
    /\ dvOutcome = "none"
    /\ prev_message = EmptyMsg
    /\ last_update_time = 0
    /\ message = EmptyMsg
    /\ monitorRaised = FALSE
    /\ exc = "none"
    /\ cret = "none"
    /\ edits = <<>>
    /\ shown = EmptyMsg
    /\ pollerEdit = NoPollerEdit
    /\ replies = <<>>
    /\ outcome = "running"
    /\ nWrites = 0
    /\ lastSnap = EmptyHolder
    /\ reads = <<>>
    /\ finishedWritten = FALSE
    /\ finishedRead = FALSE
    /\ cleanups = 0
    /\ removals = 0
    /\ cleanupFailed = FALSE

InitLive ==
    /\ dv = NoFrame /\ call = NoCall
    /\ ctxs = NoRuns /\ world = EmptyWorld /\ last = NoAccess
    /\ fmt = NoFormatCall
    /\ FilesIdle
    /\ auth = NoAuth
    /\ ProcessAtStartLive

SleepOn ==
    /\ pc = "sleep"
    /\ now + PollTick > MaxTime
    /\ last_update_time' = last_update_time - PollTick
    /\ pc' = "monitor"
    /\ UNCHANGED <<now, status_created, temp_dir, prev_message, message,
                   monitorRaised, exc, cret, edits, shown, replies, outcome, reads, finishedRead,
                   cleanups, pollerEdit>>
    /\ UNCHANGED <<workerVars, dirExists, fileExists, fileSize, progress_data>>
    /\ UNCHANGED <<auxVars, update, info, upload_result, removals, cleanupFailed>>

\* The positions of process_url inside _monitor_download_progress.
MonitorPcs == {"monitor", "b_test_dl", "b_get_dl", "b_test_pp", "b_get_pp", "decide", "sleep"}

\* The steps the event loop takes on its own: every awaited call returns or
\* raises.  A cancellation comes from outside and is not among them.
EventLoopStep ==
    \/ ValidateUrl
    \/ ExtractAndStart
    \/ MonitorLoop
    \/ BuildTestDownload
    \/ BuildGetDownload
    \/ BuildTestPostprocess
    \/ BuildGetPostprocess
    \/ DecideEdit
    \/ SleepOn
    \/ JoinBegin
    \/ JoinEnd
    \/ ReadResult
    \/ HandleLargeFile
    \/ UploadLargeFile
    \/ SendVideo
    \/ CleanupBegin
    \/ CleanupJoinEnd
    \/ CleanupRemove
    \/ DeleteStatus
    \/ HandleException

\* The statements of the worker thread itself, which the interpreter keeps
\* scheduling.  The external download may take forever: whether it reports
\* progress, writes the file, returns or raises is up to yt-dlp.
WorkerThreadStep ==
    \/ HookUpdate
    \/ WriteOutcome
    \/ SetComplete
    \/ ThreadExit

NextLive == Worker \/ EventLoopStep \/ Cancelled

SpecLive ==
    /\ InitLive
    /\ [][NextLive]_vars
    /\ WF_vars(EventLoopStep)
    /\ WF_vars(WorkerThreadStep)

\* ------------------------------- download_video's options, on their own
\* download_video is entered with some metadata; the run of process_url
\* around it stands still.
processVars ==
    <<update, info, upload_result, pc, wpc, now, status_created, temp_dir, dirExists,
      fileExists, fileSize, download_complete, download_result, download_error,
      progress_data, hook, nProgress, dvOutcome, prev_message, last_update_time,
      message, monitorRaised, exc, cret, edits, shown, pollerEdit, replies, outcome,
      nWrites, lastSnap, reads, finishedWritten, finishedRead, cleanups, removals,
      cleanupFailed>>

ProcessAtRest ==
    /\ update = [hasText |-> FALSE, valid |-> FALSE, supported |-> FALSE]
    /\ info = NoInfo /\ upload_result = "unset"
    /\ pc = "start" /\ wpc = "unstarted" /\ now = StartTime
    /\ status_created = FALSE /\ temp_dir = FALSE
    /\ dirExists = FALSE /\ fileExists = FALSE /\ fileSize = 0
    /\ download_complete = FALSE
    /\ download_result = "None" /\ download_error = "None"
    /\ progress_data = EmptyHolder /\ hook = EmptyHolder
    /\ nProgress = 0 /\ dvOutcome = "none"
    /\ prev_message = EmptyMsg /\ last_update_time = 0 /\ message = EmptyMsg
    /\ monitorRaised = FALSE /\ exc = "none" /\ cret = "none"
    /\ edits = <<>> /\ shown = EmptyMsg /\ pollerEdit = NoPollerEdit
    /\ replies = <<>> /\ outcome = "running"
    /\ nWrites = 0 /\ lastSnap = EmptyHolder /\ reads = <<>>
    /\ finishedWritten = FALSE /\ finishedRead = FALSE
    /\ cleanups = 0 /\ removals = 0 /\ cleanupFailed = FALSE

InitCodec ==
    /\ ProcessAtRest
    /\ ctxs = NoRuns /\ world = EmptyWorld /\ last = NoAccess
    /\ fmt = NoFormatCall
    /\ FilesIdle
    /\ auth = NoAuth
    /\ \/ call = NoCall /\ \E i \in CodecInfos : dv = Entered(i)
       \/ dv = NoFrame /\ call \in Calls

\* need_convert_vcodec is called and returns.
ReturnNeedConvertVcodec ==
    /\ call.fn = "need_convert_vcodec" /\ ~call.done
    /\ call' = [call EXCEPT !.done = TRUE, !.ret = need_convert_vcodec(call.arg)]
    /\ UNCHANGED <<dv, contextVars, formatVars, filesVars, authVars, processVars>>

\* need_convert_acodec is called and returns.
ReturnNeedConvertAcodec ==
    /\ call.fn = "need_convert_acodec" /\ ~call.done
    /\ call' = [call EXCEPT !.done = TRUE, !.ret = need_convert_acodec(call.arg)]
    /\ UNCHANGED <<dv, contextVars, formatVars, filesVars, authVars, processVars>>

\* download_video lines 65-67: the three info.get calls.
ReadCodecs ==
    /\ dv.at = "entry"
    /\ dv' = [dv EXCEPT !.at = "read",
                        !.vcodec = Get(dv.info.vcodec),
                        !.acodec = Get(dv.info.acodec),
                        !.extractor = Get(dv.info.extractor)]
    /\ UNCHANGED <<call, contextVars, formatVars, filesVars, authVars, processVars>>

\* download_video lines 69-71.
DecideConvert ==
    /\ dv.at = "read"
    /\ dv' = [dv EXCEPT !.at = "decided",
                        !.need_convert = NeedConvert(dv.extractor, dv.vcodec, dv.acodec)]
    /\ UNCHANGED <<call, contextVars, formatVars, filesVars, authVars, processVars>>

\* download_video lines 77-96: ydl_opts with the container step only.
BuildOptions ==
    /\ dv.at = "decided"
    /\ dv' = [dv EXCEPT !.at = "options",
                        !.postprocessors = <<"FFmpegVideoConvertor">>,
                        !.postprocessor_args = <<>>]
    /\ UNCHANGED <<call, contextVars, formatVars, filesVars, authVars, processVars>>

\* download_video lines 98-109: the copy-stream step and its arguments.
AppendCopyStream ==
    /\ dv.at = "options"
    /\ dv' = IF dv.need_convert
             THEN [dv EXCEPT !.at = "built",
                             !.postprocessors = Append(dv.postprocessors, "FFmpegCopyStream"),
                             !.postprocessor_args = CopystreamArgs(dv.vcodec, dv.acodec)]
             ELSE [dv EXCEPT !.at = "built"]
    /\ UNCHANGED <<call, contextVars, formatVars, filesVars, authVars, processVars>>

NextCodec ==
    \/ ReturnNeedConvertVcodec
    \/ ReturnNeedConvertAcodec
    \/ ReadCodecs
    \/ DecideConvert
    \/ BuildOptions
    \/ AppendCopyStream

SpecCodec == InitCodec /\ [][NextCodec]_vars

\* ------------------------------------------ listing and deleting files
InitFiles ==
    /\ ProcessAtRest
    /\ dv = NoFrame /\ call = NoCall
    /\ ctxs = NoRuns /\ world = EmptyWorld /\ last = NoAccess
    /\ fmt = NoFormatCall
    /\ FilesIdle
    /\ auth = NoAuth

NotFiles == <<codecVars, contextVars, formatVars, authVars, processVars>>

\* upload_to_firebase stores one more file (firebase.py lines 32-46).
UploadFile ==
    /\ uploaded < MaxUploads
    /\ uploaded' = uploaded + 1
    /\ store' = store \cup {uploaded + 1}
    /\ UNCHANGED <<listing, click, NotFiles>>

\* A stored file is deleted by someone else (another chat's button, the
\* storage console).
DeletedElsewhere ==
    /\ \E f \in store : store' = store \ {f}
    /\ UNCHANGED <<uploaded, listing, click, NotFiles>>

\* list_files lines 20-67: the files are fetched, sorted and displayed with
\* one button 'del:idx' per entry; without files the reply has no buttons.
ListFiles ==
    /\ \E fails \in BOOLEAN :
          LET files == SortedFiles(store, fails)
          IN  listing' = IF files.none \/ files.files = <<>> THEN listing
                         ELSE Displayed(files.files)
    /\ UNCHANGED <<store, uploaded, click, NotFiles>>

\* delete_file_callback lines 84-120 for the button 'del:idx': the files are
\* fetched and sorted again and the entry at idx is deleted;
\* edit_message_text then replaces the message, buttons included.
DeleteClick(idx) ==
    /\ idx \in 0..(Len(listing) - 1)
    /\ \E listFails \in BOOLEAN, deleteOk \in BOOLEAN, editOk \in BOOLEAN :
          LET files == SortedFiles(store, listFails)
              entry == listing[idx + 1]
          IN  /\ IF files.none \/ files.files = <<>>
                 THEN /\ click' = Click(idx, entry, entry \in store, 0, "no files")
                      /\ UNCHANGED store
                 ELSE IF idx >= Len(files.files)
                 THEN /\ click' = Click(idx, entry, entry \in store, 0, "list has changed")
                      /\ UNCHANGED store
                 ELSE IF deleteOk
                 THEN /\ store' = store \ {files.files[idx + 1]}
                      /\ click' = Click(idx, entry, entry \in store,
                                        files.files[idx + 1], "deleted")
                 ELSE /\ click' = Click(idx, entry, entry \in store, 0, "failed")
                      /\ UNCHANGED store
              /\ listing' = IF editOk THEN <<>> ELSE listing
    /\ UNCHANGED <<uploaded, NotFiles>>

NextFiles ==
    \/ UploadFile
    \/ DeletedElsewhere
    \/ ListFiles
    \/ \E idx \in 0..(MaxUploads - 1) : DeleteClick(idx)

SpecFiles == InitFiles /\ [][NextFiles]_vars

\* ------------------------------------------ handlers behind the wrapper
InitAuth ==
    /\ dv = NoFrame /\ call = NoCall
    /\ ctxs = NoRuns /\ world = EmptyWorld /\ last = NoAccess
    /\ fmt = NoFormatCall
    /\ store = StoredAtFirst /\ uploaded = 3 /\ listing = ListedAtFirst /\ click = NoClick
    /\ auth \in AuthInputs
    /\ ProcessAtStartLive

\* authorized.wrapper, common.py lines 17-29: without a user it returns; a
\* user not in ALLOWED_USERS is told so (on the callback query if there is
\* one, else on the message) and it returns; otherwise the handler is called.
Wrapper ==
    /\ auth.at = "wrapper"
    /\ auth' = IF auth.user = 0
               THEN [auth EXCEPT !.at = "returned"]
               ELSE IF ~IsAllowed(auth.user, auth.env)
               THEN [auth EXCEPT !.at = "returned",
                                 !.notice = IF auth.handler = "delete_file_callback"
                                            THEN "You are not authorized."
                                            ELSE "You are not authorized to use this bot."]
               ELSE [auth EXCEPT !.at = "handler"]
    /\ UNCHANGED <<codecVars, contextVars, formatVars, filesVars, processVars>>

\* The handler the wrapper called is running.
InHandler(h) == auth.at = "handler" /\ auth.handler = h

NextAuth ==
    \/ Wrapper
    \/ InHandler("process_url") /\ NextLive
    \/ InHandler("list_files") /\ ListFiles
    \/ InHandler("delete_file_callback") /\ \E idx \in 0..(MaxUploads - 1) : DeleteClick(idx)

SpecAuth == InitAuth /\ [][NextAuth]_vars

\* ------------------------------------------ the formatter, on its own
InitFormat ==
    /\ ProcessAtRest
    /\ FilesIdle
    /\ auth = NoAuth
    /\ dv = NoFrame /\ call = NoCall
    /\ ctxs = NoRuns /\ world = EmptyWorld /\ last = NoAccess
    /\ \E d \in FormatInputs : fmt = FormatCall(d, "called", EmptyMsg)

\* build_download_progress_message returns its text.
FormatReturns ==
    /\ fmt.ended = "called"
    /\ ~DownloadMessageRaises(fmt.d)
    /\ fmt' = [fmt EXCEPT !.ended = "returned",
                          !.text = build_download_progress_message(fmt.d)]
    /\ UNCHANGED <<codecVars, contextVars, filesVars, authVars, processVars>>

\* build_download_progress_message raises TypeError.
FormatRaises ==
    /\ fmt.ended = "called"
    /\ DownloadMessageRaises(fmt.d)
    /\ fmt' = [fmt EXCEPT !.ended = "raised"]
    /\ UNCHANGED <<codecVars, contextVars, filesVars, authVars, processVars>>

NextFormat == FormatReturns \/ FormatRaises

SpecFormat == InitFormat /\ [][NextFormat]_vars

\* ------------------------------------------ two invocations, interleaved
\* Two invocations of process_url past the size check, their steps and their
\* workers' steps in any order.
InitContexts ==
    /\ ProcessAtRest
    /\ dv = NoFrame /\ call = NoCall
    /\ ctxs = [r \in RunIds |-> Run("start", "unstarted")]
    /\ world = EmptyWorld
    /\ last = NoAccess
    /\ fmt = NoFormatCall
    /\ FilesIdle
    /\ auth = NoAuth

Others == <<codecVars, formatVars, filesVars, authVars, processVars>>

\* process_url lines 193-194: tempfile.mkdtemp() makes a directory under a
\* new random name, taken here never to repeat; temp_path is video.mp4 in it.
Mkdtemp(r) ==
    /\ ctxs[r].at = "start"
    /\ LET name == world.made + 1
       IN  /\ world' = [world EXCEPT !.made = name, !.dirs = @ \cup {name}]
           /\ ctxs' = [ctxs EXCEPT ![r].at = "made", ![r].temp_dir = name,
                                   ![r].temp_path = [dir |-> name, file |-> "video.mp4"]]
           /\ last' = Access(r, {}, {name})
    /\ UNCHANGED Others

\* process_url line 197: DownloadContext(url, info, temp_dir, temp_path).
NewContext(r) ==
    /\ ctxs[r].at = "made"
    /\ LET o == NewObjects(world.heap)
       IN  /\ world' = [world EXCEPT !.heap = @ \o <<0, 0, 0, 0>>]
           /\ ctxs' = [ctxs EXCEPT ![r].at = "ctx",
                                   ![r].download_complete = o.download_complete,
                                   ![r].download_result = o.download_result,
                                   ![r].download_error = o.download_error,
                                   ![r].progress_data = o.progress_data]
           /\ last' = Access(r, {o.download_complete, o.download_result,
                                 o.download_error, o.progress_data}, {})
    /\ UNCHANGED Others

\* _create_download_thread: the thread's function closes over this ctx.
StartThread(r) ==
    /\ ctxs[r].at = "ctx"
    /\ ctxs' = [ctxs EXCEPT ![r].at = "monitor", ![r].wat = "download"]
    /\ last' = Access(r, {}, {})
    /\ UNCHANGED <<world, Others>>

\* downloader.py lines 57-63: a hook replaces the content of the dict it was
\* given (1: download progress, 2: postprocess progress).
HookWrites(r) ==
    /\ ctxs[r].wat = "download"
    /\ \E snapshot \in {1, 2} :
          world' = [world EXCEPT !.heap[ctxs[r].progress_data] = snapshot]
    /\ last' = Access(r, {ctxs[r].progress_data}, {})
    /\ UNCHANGED <<ctxs, Others>>

\* yt-dlp writes the file at the output path it was given.
WritesFile(r) ==
    /\ ctxs[r].wat = "download"
    /\ ctxs[r].temp_path.dir \in world.dirs
    /\ world' = [world EXCEPT !.files = @ \cup {ctxs[r].temp_path.dir}]
    /\ last' = Access(r, {}, {ctxs[r].temp_path.dir})
    /\ UNCHANGED <<ctxs, Others>>

\* download_thread lines 76-80: the result, or the exception, is stored.
WritesResult(r) ==
    /\ ctxs[r].wat = "download"
    /\ \E raised \in BOOLEAN :
          LET path == ctxs[r].temp_path.dir
              slot == IF raised THEN ctxs[r].download_error ELSE ctxs[r].download_result
              value == IF raised THEN 1 ELSE IF path \in world.files THEN path ELSE 0
          IN  /\ world' = [world EXCEPT !.heap[slot] = value]
              /\ last' = Access(r, {slot}, {path})
    /\ ctxs' = [ctxs EXCEPT ![r].wat = "finally"]
    /\ UNCHANGED Others

\* download_thread lines 81-83: download_complete.set().
Signals(r) ==
    /\ ctxs[r].wat = "finally"
    /\ world' = [world EXCEPT !.heap[ctxs[r].download_complete] = 1]
    /\ ctxs' = [ctxs EXCEPT ![r].wat = "dead"]
    /\ last' = Access(r, {ctxs[r].download_complete}, {})
    /\ UNCHANGED Others

\* _monitor_download_progress: one pass of the loop, which reads the signal
\* and the dict; the function is left when the signal is set or a pass raises.
Polls(r) ==
    /\ ctxs[r].at = "monitor"
    /\ \E raised \in BOOLEAN :
          ctxs' = [ctxs EXCEPT ![r].at =
                      IF raised \/ world.heap[ctxs[r].download_complete] = 1
                      THEN "read" ELSE "monitor"]
    /\ last' = Access(r, {ctxs[r].download_complete, ctxs[r].progress_data}, {})
    /\ UNCHANGED <<world, Others>>

\* process_url lines 211-218: the error and the result are read; without a
\* file the invocation returns, with an error it goes to the handler.
ReadsResult(r) ==
    /\ ctxs[r].at = "read"
    /\ LET c == ctxs[r]
           result == world.heap[c.download_result]
       IN  /\ ctxs' = [ctxs EXCEPT ![r].at =
                          IF world.heap[c.download_error] = 1 THEN "cleanup_last"
                          ELSE IF result = 0 \/ result \notin world.files THEN "returned"
                          ELSE "cleanup"]
           /\ last' = Access(r, {c.download_error, c.download_result},
                             {result} \ {0})
    /\ UNCHANGED <<world, Others>>

\* DownloadContext.cleanup lines 41-44, from line 223 or 228 (after which
\* status_message.delete() may raise and the handler cleans up again) or
\* from line 235.
CleansUp(r) ==
    /\ ctxs[r].at \in {"cleanup", "cleanup_last"}
    /\ LET c == ctxs[r]
           result == world.heap[c.download_result]
       IN  /\ world' = [world EXCEPT !.files = @ \ {result, c.temp_dir},
                                     !.dirs = @ \ {c.temp_dir}]
           /\ last' = Access(r, {c.download_result}, ({result} \ {0}) \cup {c.temp_dir})
    /\ \E delete_raises \in BOOLEAN :
          ctxs' = [ctxs EXCEPT ![r].at =
                      IF ctxs[r].at = "cleanup" /\ delete_raises
                      THEN "cleanup_last" ELSE "returned"]
    /\ UNCHANGED Others

NextContexts ==
    \E r \in RunIds :
        \/ Mkdtemp(r)
        \/ NewContext(r)
        \/ StartThread(r)
        \/ HookWrites(r)
        \/ WritesFile(r)
        \/ WritesResult(r)
        \/ Signals(r)
        \/ Polls(r)
        \/ ReadsResult(r)
        \/ CleansUp(r)

SpecContexts == InitContexts /\ [][NextContexts]_vars

\* ------------------------------------------------------------ properties

\* C1: when process_url has returned (after a delivery, after a failure the
\* worker reported, or through its exception handler) and had created a
\* working directory, the working directory no longer exists (unless
\* unlink or rmtree themselves failed).
C1_DirRemovedOnReturn ==
    (pc = "returned" /\ temp_dir /\ ~cleanupFailed
        /\ outcome \in {"delivered", "download_failed", "error"})
    => ~dirExists

\* C2: when process_url has returned from a run whose polling loop ended on
\* the completion signal and whose download failed (download_video returned
\* None or raised), a failure notice was written into the status message
\* and cleanup has run (and, unless unlink or rmtree failed, has removed the
\* directory).
FailureNotices ==
    {SorryMsg} \cup {Msg("An error occurred: " \o e, 0, 0, 0) : e \in {"download"}}
C2_WorkerFailureCleaned ==
    (pc = "returned" /\ outcome # "cancelled" /\ ~monitorRaised
        /\ dvOutcome \in {"None", "raise"})
    => /\ \E i \in 1..Len(edits) : edits[i].text \in FailureNotices
       /\ cleanups >= 1
       /\ cleanupFailed \/ ~dirExists

\* C3: when a cancellation of the polling loop has left process_url,
\* cleanup has run and the working directory is gone.
C3_CancelCleaned == (pc = "returned" /\ outcome = "cancelled") => (cleanups >= 1 /\ ~dirExists)

\* C4 as stated: whenever download_complete is set, download_result[0]
\* holds a path or download_error[0] holds an error.
C4_SignaledNonEmpty ==
    download_complete => (download_result # "None" \/ download_error # "None")

\* C4 as amended: whenever download_complete is set, the worker has made its
\* write of the terminal outcome, and the slots hold what download_video
\* produced: a path if it returned one, an error if it raised, and both are
\* None exactly when download_video returned None.
C4_WrittenBeforeSignal ==
    download_complete =>
        /\ nWrites = 1
        /\ (download_result = "path") = (dvOutcome = "path")
        /\ (download_error = "error") = (dvOutcome = "raise")
        /\ (download_result = "None" /\ download_error = "None") = (dvOutcome = "None")
C4_Witness == download_complete /\ dvOutcome = "None" /\ download_result = "None"

\* C5: the orchestrator has judged the result (reported the download error
\* or started delivery) only in states where download_complete is set.
C5_JudgedAfterSignal ==
    (outcome = "download_failed" \/ pc \in {"deliver", "send", "upload"}) => download_complete

\* C6: at most one write is made to download_result[0] and download_error[0]
\* taken together, exactly one once the worker has signalled, and the slots
\* never change after that write.
C6_WrittenOnce ==
    /\ [](nWrites <= 1)
    /\ [](download_complete => nWrites = 1)
    /\ [][nWrites >= 1 => (download_result' = download_result /\ download_error' = download_error)]_vars
C6_Witness == nWrites = 1 /\ download_complete /\ pc = "returned"

\* C7: every read of ctx.progress_data by the poller observes a complete
\* snapshot, never the holder a hook has emptied and not yet refilled.
C7_ReadsComplete == \A i \in 1..Len(reads) : reads[i].complete

\* C8: two consecutive status edits of the poller are at least 1.5 s apart.
C8_EditsSpaced == pollerEdit.n >= 2 => pollerEdit.at - pollerEdit.prevAt >= MinInterval
C8_Witness == pollerEdit.n >= 2 /\ pollerEdit.at - pollerEdit.prevAt = MinInterval

\* C9: an edit issued by the poller carries a non-empty text that differs
\* from the text the status message showed when the edit was issued.
C9_EditOnlyWhenChanged ==
    pollerEdit.n >= 1 => (pollerEdit.text # EmptyMsg /\ pollerEdit.text # pollerEdit.shownBefore)

\* C10: when the polling loop has exited on the completion signal and the
\* worker had stored a 'finished' snapshot, the poller has read it.
C10_FinishedObserved ==
    (pc = "join" /\ ~monitorRaised /\ finishedWritten) => finishedRead

\* C11: if the worker never sets download_complete, the run still ends:
\* in every behaviour the signal is set or process_url returns.
C11_RunEndsWithoutSignal == <>(download_complete \/ pc = "returned")

\* C12: once download_video has returned or raised, eventually
\* download_complete is set and the polling loop has been left.
C12_SignalThenExit ==
    (wpc = "returned") ~> (download_complete /\ pc \notin MonitorPcs)
C12_Witness == download_complete /\ pc = "join" /\ ~monitorRaised /\ dvOutcome = "raise"

\* C13: an invalid URL, an unsupported platform and a filesize strictly above
\* MAX_FILE_SIZE are each reported, and process_url returns with no working
\* directory and no worker thread; a filesize that is absent, zero or equal
\* to MAX_FILE_SIZE passes the size check.
Rejected ==
    \/ update.hasText /\ ~update.valid
    \/ update.hasText /\ ~update.supported
    \/ info.filesize.t = "int" /\ info.filesize.v > MAX_FILE_SIZE
RejectionNotice ==
    IF ~update.valid THEN replies = <<"Please provide a valid URL.">>
    ELSE IF ~update.supported
    THEN replies = <<"Sorry, this URL is not from a supported platform.">>
    ELSE \E i \in 1..Len(edits) : edits[i].text = TooLargeMsg
C13_PreflightRejects ==
    /\ (Rejected /\ pc # "start") =>
          /\ pc = "returned"
          /\ RejectionNotice
          /\ ~temp_dir /\ ~dirExists /\ wpc = "unstarted"
    /\ (info.kind = "video" /\ info.filesize \in {AbsentV, IntV(0), IntV(MAX_FILE_SIZE)}) =>
          /\ temp_dir /\ wpc # "unstarted"
          /\ \A i \in 1..Len(edits) : edits[i].text # TooLargeMsg
C13_Witness ==
    /\ pc = "returned" /\ outcome = "too_large"
    /\ info = Info("video", IntV(MAX_FILE_SIZE + 1))

\* C14: when extraction raises, returns an empty result or returns a
\* playlist, the run is reported as failed and neither a working directory
\* nor a worker thread exists.
ExtractionRaiseReported ==
    (exc = "extraction" /\ pc = "returned") =>
          (outcome = "error" /\ ~temp_dir /\ wpc = "unstarted")
C14_ExtractionFailureStops ==
    /\ ExtractionRaiseReported
    /\ info.kind \in {"empty", "playlist"} =>
          (~temp_dir /\ ~dirExists /\ wpc = "unstarted")

\* C15: the delivery is routed by the artifact's size with an inclusive
\* threshold: a size up to MAX_TELEGRAM_FILE_SIZE is sent inline and never
\* uploaded, a size above it is never sent inline and, once
\* _handle_large_file has found it too large, the upload is attempted.
FoundTooLarge == \E i \in 1..Len(edits) : edits[i].text = FileTooLargeMsg
RoutedWithinThreshold ==
    /\ pc = "send" => fileSize <= MAX_TELEGRAM_FILE_SIZE
    /\ (pc = "upload" \/ FoundTooLarge \/ upload_result # "unset")
          => fileSize > MAX_TELEGRAM_FILE_SIZE
    /\ (\E i \in 1..Len(replies) : replies[i] = "video")
          => (fileSize <= MAX_TELEGRAM_FILE_SIZE /\ upload_result = "unset")
C15_RoutedBySize ==
    /\ RoutedWithinThreshold
    /\ (FoundTooLarge /\ pc = "returned") => upload_result # "unset"

\* C16: when the upload of a too-large artifact fails, the user is told
\* something else than when Firebase is not initialised.
C16_UploadFailuresToldApart ==
    upload_result = "None: not initialized"
        => OverflowNotice(upload_result) # OverflowNotice("None: upload error")

\* C17: a status edit that raises does not end the run as an error: after a
\* failed 'File too large for Telegram...' edit the upload is still attempted
\* and no 'An error occurred' notice is written.
C17_EditFailureTolerated ==
    (pc = "returned" /\ \E i \in 1..Len(edits) :
                            edits[i].text = FileTooLargeMsg /\ ~edits[i].ok)
    => /\ upload_result # "unset"
       /\ \A i \in 1..Len(edits) : edits[i].text # ErrorMsg("edit")

\* C18: while the delivery step is under way the artifact and the working
\* directory exist and cleanup has not been called; whenever the directory
\* is gone, cleanup has run and no delivery is under way.
DeliveryPcs == {"deliver", "upload", "send"}
C18_NotDeletedBeforeDelivery ==
    /\ pc \in DeliveryPcs => (fileExists /\ dirExists /\ cleanups = 0)
    /\ (temp_dir /\ ~dirExists) => (cleanups >= 1 /\ pc \notin DeliveryPcs)
C18_Witness ==
    /\ pc = "returned" /\ outcome = "delivered" /\ upload_result = "url"
    /\ cleanups = 1 /\ ~fileExists /\ ~dirExists

\* C19: a cleanup that starts with the worker alive first joins it, the join
\* takes at most CleanupJoinTimeout and deletes nothing, and the result file
\* and the directory are deleted only after the join has ended.
C19_CleanupWaitsThenDeletes ==
    [][/\ (pc = "cleanup" /\ thread_is_alive /\ pc' # pc)
            => (pc' = "c_joining" /\ dirExists' = dirExists /\ fileExists' = fileExists)
       /\ pc = "c_joining"
            => /\ pc' \in {"c_joining", "c_remove"}
               /\ now' - now <= CleanupJoinTimeout
               /\ dirExists' = dirExists
               /\ fileExists => fileExists'
       /\ ((dirExists /\ ~dirExists') \/ (fileExists /\ ~fileExists'))
            => pc = "c_remove"]_vars
C19_Witness ==
    pc = "c_remove" /\ thread_is_alive /\ dirExists /\ cleanups = 1

CleanupPcs == {"cleanup", "c_joining", "c_remove"}
SecondCleanupIdle ==
    [][(pc \in CleanupPcs /\ temp_dir /\ ~dirExists)
          => /\ dirExists' = dirExists /\ fileExists' = fileExists
             /\ removals' = removals /\ cleanupFailed' = cleanupFailed
             /\ pc' \in CleanupPcs \cup {cret} /\ exc' = exc]_vars
RemovedAtMostOnce == removals <= 1 /\ (fileExists => dirExists)
C21_RemovedExactlyOnce ==
    (pc = "returned" /\ temp_dir /\ outcome # "cancelled" /\ ~cleanupFailed)
    => removals = 1

\* C22: an exception inside cleanup stays inside cleanup: no step of
\* cleanup enters the exception handler or changes what the user was told,
\* and a run that called cleanup and in which nothing else raised ends as
\* delivered, whether cleanup failed or not.
C22_CleanupFailureSilent ==
    /\ [][(pc \in CleanupPcs)
            => (pc' \in CleanupPcs \cup {cret}
                /\ exc' = exc /\ outcome' = outcome
                /\ edits' = edits /\ shown' = shown /\ replies' = replies)]_vars
    /\ []((pc = "returned" /\ cleanups >= 1 /\ exc = "none") => outcome = "delivered")
C22_Witness ==
    /\ pc = "returned" /\ outcome = "delivered" /\ exc = "none"
    /\ cleanupFailed /\ dirExists

\* C24: nothing is retried: process_url never goes back to an earlier step,
\* the worker never goes back to an earlier step, the metadata is
\* extracted once, the thread is started once (by process_url after the
\* extraction) and the upload is attempted once.
Rank(p) ==
    CASE p = "start" -> 0
      [] p = "extract" -> 1
      [] p \in MonitorPcs -> 2
      [] p \in {"join", "joining"} -> 3
      [] p = "read" -> 4
      [] p = "deliver" -> 5
      [] p \in {"upload", "send"} -> 6
      [] p \in {"cleanup", "c_joining", "c_remove", "delete", "except"} -> 7
      [] OTHER -> 8
WorkerRank(w) ==
    CASE w = "unstarted" -> 0
      [] w \in {"download", "hook"} -> 1
      [] w = "returned" -> 2
      [] w = "finally" -> 3
      [] w = "signaled" -> 4
      [] OTHER -> 5
C24_NothingRetried ==
    [][/\ Rank(pc') >= Rank(pc)
       /\ WorkerRank(wpc') >= WorkerRank(wpc)
       /\ (wpc = "unstarted" /\ wpc' # "unstarted") => pc = "extract"
       /\ info # NoInfo => info' = info
       /\ dvOutcome # "none" => dvOutcome' = dvOutcome
       /\ upload_result # "unset" => upload_result' = upload_result
       /\ Len(replies') <= 1]_vars
C24_Witness == pc = "returned" /\ outcome = "error" /\ exc = "download" /\ wpc = "dead"

\* C25: a run with a valid, supported URL, metadata with a filesize under
\* MAX_FILE_SIZE, an artifact the worker produced of at most
\* MAX_TELEGRAM_FILE_SIZE, and in which no messaging call failed, has, when
\* process_url has returned, sent the artifact inline once, uploaded
\* nothing and removed the working directory.
AllEditsOk == \A i \in 1..Len(edits) : edits[i].ok
C25_SmallArtifactSentInline ==
    (/\ pc = "returned" /\ outcome # "cancelled"
     /\ info.kind = "video" /\ info.filesize.t = "int" /\ info.filesize.v < MAX_FILE_SIZE
     /\ dvOutcome = "path" /\ fileSize <= MAX_TELEGRAM_FILE_SIZE
     /\ exc = "none" /\ AllEditsOk /\ ~cleanupFailed)
    => /\ replies = <<"video">>
       /\ upload_result = "unset"
       /\ ~dirExists

\* C26 as stated: when the upload of a too-large artifact returned a URL and
\* process_url has returned, exactly one message was sent, the caption
\* with the title, the size in MiB, the URL and the source, and the
\* working directory is removed.
LargeArtifactDelivered ==
    /\ replies = <<"Title: " \o Title(info)
                     \o "\nSize: 50MB (too large for Telegram)\nDownload: D\nSource: U">>
    /\ fileSize \div BYTES_MB = 50
    /\ ~dirExists /\ removals = 1
CompatibleVideoPrefixes == {"avc1", "h264", "hvc1", "hevc", "h265", "av01"}

C27_VideoRuleByPrefix ==
    (call.fn = "need_convert_vcodec" /\ call.done) =>
        (call.ret = FALSE <=>
            /\ call.arg.t = "str"
            /\ \E prefix \in CompatibleVideoPrefixes : StartsWith(call.arg.s, prefix))

C27_Witness ==
    /\ call.fn = "need_convert_vcodec" /\ call.done
    /\ call.arg = Str("hvc1.1.6.L93.B0") /\ call.ret = FALSE

\* ---- C28: need_convert_acodec returns false exactly for aac, mp4a.40.2,
\* mp4a.40.5 and mp4a.40.29 taken literally, and true for every other value,
\* the empty string and a missing value included.
C28_AudioRuleLiteral ==
    (call.fn = "need_convert_acodec" /\ call.done) =>
        (call.ret = FALSE <=>
            call.arg \in {Str("aac"), Str("mp4a.40.2"), Str("mp4a.40.5"),
                          Str("mp4a.40.29")})

C28_Witness ==
    /\ call.fn = "need_convert_acodec" /\ call.done
    /\ call.arg = Str("mp4a.40.20") /\ call.ret = TRUE

\* ---- C29: the options download_video builds hold the FFmpegCopyStream step
\* and codec arguments if and only if the metadata's extractor is 'youtube'
\* and one of the two codec rules fires; for every other extractor they hold
\* the container step alone and no codec arguments, whatever the codecs.
ReencodeRequested ==
    /\ dv.postprocessors = <<"FFmpegVideoConvertor", "FFmpegCopyStream">>
    /\ dv.postprocessor_args # <<>>

ContainerStepOnly ==
    /\ dv.postprocessors = <<"FFmpegVideoConvertor">>
    /\ dv.postprocessor_args = <<>>

C29_ReencodeOnlyForYoutube ==
    dv.at = "built" =>
        LET youtube == Get(dv.info.extractor) = Str("youtube")
            fires == \/ need_convert_vcodec(Get(dv.info.vcodec))
                     \/ need_convert_acodec(Get(dv.info.acodec))
        IN  /\ ReencodeRequested <=> (youtube /\ fires)
            /\ ~ReencodeRequested => ContainerStepOnly
            /\ ~youtube => ContainerStepOnly

C29_Witness ==
    /\ dv.at = "built"
    /\ dv.info.extractor = Str("instagram")
    /\ dv.info.vcodec = Str("vp9") /\ dv.info.acodec = Str("opus")
    /\ ContainerStepOnly

\* ---- C30: when a re-encode is requested, the video target is libx264
\* exactly when the video rule fires and copy otherwise, the audio target is
\* aac exactly when the audio rule fires and copy otherwise, and the two
\* targets are never both copy.
C30_TargetsFollowRules ==
    (dv.at = "built" /\ ReencodeRequested) =>
        LET args == dv.postprocessor_args
            video == need_convert_vcodec(Get(dv.info.vcodec))
            audio == need_convert_acodec(Get(dv.info.acodec))
        IN  /\ Len(args) = 4 /\ args[1] = "-c:v" /\ args[3] = "-c:a"
            /\ args[2] = (IF video THEN "libx264" ELSE "copy")
            /\ args[4] = (IF audio THEN "aac" ELSE "copy")
            /\ ~(args[2] = "copy" /\ args[4] = "copy")

C30_Witness ==
    /\ dv.at = "built" /\ ReencodeRequested
    /\ dv.info.vcodec = Str("avc1.64001F") /\ dv.info.acodec = Str("opus")
    /\ dv.postprocessor_args = <<"-c:v", "copy", "-c:a", "aac">>

\* ---- C23: two contexts made by interleaved invocations have different
\* temp_dir and temp_path, and no step of one invocation or of its worker
\* (progress write, result write, signal, poll, cleanup) touches the
\* directory, the progress dict, the result slot or the signal of the other.
C23_ContextsSeparate ==
    \A r \in RunIds : \A other \in RunIds \ {r} :
        /\ (ctxs[r].temp_dir # 0 /\ ctxs[other].temp_dir # 0) =>
                /\ ctxs[r].temp_dir # ctxs[other].temp_dir
                /\ ctxs[r].temp_path # ctxs[other].temp_path
        /\ Owned(ctxs[r]) \cap Owned(ctxs[other]) = {}
        /\ last.run = r =>
                /\ last.objs \cap Owned(ctxs[other]) = {}
                /\ ctxs[other].temp_dir \notin last.paths

C23_Witness ==
    /\ ctxs[1].wat = "download" /\ world.heap[ctxs[1].progress_data] = 2
    /\ ctxs[1].temp_dir \in world.files
    /\ ctxs[2].at = "returned" /\ ctxs[2].wat = "dead"
    /\ last.run = 2 /\ ctxs[2].temp_dir \in last.paths
    /\ ctxs[2].temp_dir \notin world.dirs

\* ---- C31: build_download_progress_message with total_bytes 0 or absent
\* raises no error and reports 0.00%, whatever downloaded_bytes is.
ZeroTotal == fmt.d.total_bytes \in {AbsentV, IntV(0)}

C31_ZeroTotalFormats ==
    (fmt.ended # "called" /\ ZeroTotal) =>
        (fmt.ended = "returned" /\ Fixed2(fmt.text.a) = "0.00")

\* What does hold: a call that returns with such a total reports 0.00%.
ZeroTotalGivesZeroPercent ==
    (fmt.ended = "returned" /\ ZeroTotal) => Fixed2(fmt.text.a) = "0.00"

\* ---- C32: the delivery (size test, upload, inline send) is entered only
\* from a succeeded result: download_error[0] is empty and
\* download_result[0] is the path of an existing artifact; a run whose result
\* failed or is still pending never uploads and never sends.
Succeeded == download_error = "None" /\ download_result = "path"
InlineSends == {i \in 1..Len(replies) : replies[i] = "video"}
LinkReplies ==
    {i \in 1..Len(replies) :
        replies[i] = Caption(Title(info), fileSize, DownloadUrl, Url)}

C32_DeliveryOnlyFromSucceeded ==
    /\ pc \in DeliveryPcs => (Succeeded /\ fileExists /\ fileSize > 0)
    /\ (upload_result # "unset" \/ InlineSends # {} \/ LinkReplies # {}) => Succeeded

C32_Witness ==
    /\ pc = "cleanup" /\ replies = <<"video">>
    /\ monitorRaised /\ Succeeded

\* ---- C33: a run makes at most one delivery and the two routes exclude
\* each other: never an upload and an inline send in one run, and neither
\* the upload nor the send twice.
C33_AtMostOneDelivery ==
    /\ [](/\ Cardinality(InlineSends) + Cardinality(LinkReplies) <= 1
          /\ upload_result # "unset" => InlineSends = {})
    /\ [][/\ upload_result # "unset" => upload_result' = upload_result
          /\ (InlineSends # {} \/ LinkReplies # {}) => replies' = replies]_vars

C33_Witness ==
    /\ pc = "returned" /\ upload_result = "url"
    /\ Cardinality(LinkReplies) = 1 /\ InlineSends = {}
    /\ status_created = FALSE

\* ---- C34: the status message is deleted only after a successful delivery
\* (the inline send returned, or the upload gave a URL and the link reply
\* was sent), and a failure notice written into the status message, 'failed
\* to upload the video to cloud storage' included, is still there when
\* process_url returns.
StatusDeleted == outcome = "delivered"
IsFailureNotice(m) ==
    \/ m \in {SorryMsg, TooLargeMsg, UploadFailedMsg}
    \/ StartsWith(m.text, "An error occurred")

C34_NoticeKept ==
    /\ StatusDeleted => (InlineSends # {} \/ LinkReplies # {})
    /\ (pc = "returned" /\ \E i \in 1..Len(edits) :
                               edits[i].ok /\ IsFailureNotice(edits[i].text))
          => (status_created /\ IsFailureNotice(shown))

\* ---- C35: an 'An error occurred' notice is sent only in runs in which the
\* artifact was not delivered: once reply_video or the link reply succeeded,
\* neither cleanup nor deleting the status message makes the run report an
\* error.
C35_NoErrorAfterDelivery ==
    (InlineSends # {} \/ LinkReplies # {}) =>
        /\ outcome # "error"
        /\ \A i \in 1..Len(edits) : ~StartsWith(edits[i].text.text, "An error occurred")

\* ---- C36: the file delete_file_callback removes for the button 'del:i' is
\* the file list_files displayed as entry i+1 when the button was made, also
\* when files were uploaded or deleted in between; if that file is no longer
\* stored, nothing is deleted.
C36_DeletesDisplayedFile ==
    click.result # "none" =>
        /\ click.deleted # 0 => click.deleted = click.shown
        /\ ~click.existed => click.deleted = 0

\* ---- C37: for an update whose user is not in ALLOWED_USERS, or that has no
\* user, no handler body runs: process_url makes no status message, no
\* extraction, no working directory and no worker, and list_files and
\* delete_file_callback neither list nor delete a stored file.
NotAllowed ==
    \/ auth.user = 0
    \/ \A i \in 1..Len(Split(auth.env)) : Split(auth.env)[i] # ToString(auth.user)

C37_UnauthorizedDoesNothing ==
    (auth.at # "none" /\ NotAllowed) =>
        /\ auth.at \in {"wrapper", "returned"}
        /\ pc = "start" /\ ~status_created /\ replies = <<>> /\ edits = <<>>
        /\ info = NoInfo /\ ~temp_dir /\ ~dirExists /\ wpc = "unstarted"
        /\ store = StoredAtFirst /\ listing = ListedAtFirst /\ click = NoClick

C37_Witness ==
    /\ auth.at = "returned" /\ auth.user = 1 /\ auth.env = "12,3"
    /\ auth.handler = "delete_file_callback"
    /\ auth.notice = "You are not authorized."
    /\ store = StoredAtFirst /\ click = NoClick

====
